---- MODULE Spec2Model ----
(***************************************************************************)
(* The per-camera stream manager of the camera streaming servers           *)
(* (src/api.py, identical in src/app_web.py): the registry camera_streams, *)
(* CameraStream.connect / start / _read_frames / get_frame /               *)
(* generate_frames / stop, and the request handlers that register and      *)
(* remove cameras and attach viewers.                                      *)
(*                                                                         *)
(* Threads are interleaved at the statements that touch shared state.      *)
(* OpenCV is the environment: a candidate URL opens and yields a frame     *)
(* exactly when the source is up and the camera answers that URL pattern;  *)
(* a handle whose source went down never yields a frame again; isOpened()  *)
(* of a handle stays true until release() (cap_ffmpeg keeps the capture);  *)
(* ReconnectSpec alone lets the backend close a handle under the loop.     *)
(*                                                                         *)
(* Beside the stream manager the module holds the status request health(), *)
(* the frame counter and fps of the read loops, the frame normalisation    *)
(* (resize) in the float arithmetic of Python, and the interactive tool    *)
(* src/camera_stream.py (connect / reconnect / disconnect / stream / main).*)
(* It also holds the cameras table with the CRUD requests                  *)
(* (src/camera_manager.py, src/database.py) and the URL resolver           *)
(* get_rtsp_urls with the lines connect() prints, texts being sequences of *)
(* characters tagged with the field they come from.                        *)
(* Three small models follow single objects statement by statement: one    *)
(* CameraStream under arbitrary start() and stop() calls, the capture      *)
(* handles connect() creates and drops, and the request threads that test, *)
(* look up and delete keys of camera_streams.                              *)
(* Each has its own specification; the variables of the others stay at     *)
(* their initial values.                                                   *)
(***************************************************************************)
EXTENDS Integers, FiniteSets, Sequences, TLC

\* ---------------------------------------------------------------- bounds
Cams == {1, 2}

NumViewers == 1

Viewers == 1..NumViewers

\* the two clients of the scenario with concurrent viewers
Pair == {1, 2}

\* every client a specification follows
Watchers == Viewers \cup Pair

MaxFrames == 2

\* frames counted by the loops whose fps is followed
MaxCount == 61

\* ------------------------------------------------------- program constants
\* RTSP_TEMPLATES has two entries; candidates are numbered in list order.
NumTemplates == 2

Templates == 1..NumTemplates

\* self.cap = None, self.frame = None
None == 0

\* the image built by _placeholder(); distinct from every frame id
Placeholder == -1

VARIABLES
    camera_streams, \* keys of the registry dict
    everRemoved,    \* ids whose entry has been deleted (history)
    redeleted,      \* ids that got a delete request after their removal (history)
    regFailed,      \* ids whose connect() at registration returned False (history)
    pc,             \* position of the thread that drives the stream
    ctx,            \* caller of the connect() in progress: "reg" or "loop"
    running, is_connected, cap, frame, frame_count,
    lock,           \* threads inside `with self.lock`
    url_i,          \* connect(): index of the candidate being tried
    lcap,           \* local handle: `cap` in connect(), self.cap taken by read
    readFailed,     \* handles on which a cap.read() of the loop yielded no frame (history)
    lframe,         \* _read_frames: local frame
    nh,             \* handles created so far
    live,           \* handles opened and not released
    broken,         \* live handles whose connection was lost
    dblRelease,     \* release() was called on a released handle
    up,             \* the source is reachable
    works,          \* candidates the camera answers when it is up
    vcam, vpc, vframe,
    vdisc,          \* is_connected was false when the viewer's cycle began (history)
    dbCams,         \* ids of the camera rows of the database
    tried,          \* connect(): outcomes of the candidates tried by the call in progress (history)
    hpc,            \* health(): position of the request
    hused,          \* health(): size of camera_streams when the iterator was made
    hstatus,        \* health(): keys of status['cameras']
    tool,           \* camera_stream.py: the HikvisionCamera, the locals of stream(), its source
    met,            \* the counters of one server stream: frame_count, fps
    rz,             \* one call of the frame normalisation: program, input and output size
    db,             \* the cameras table and the answer to the last CRUD request
    console,        \* one connect() seen on its output: configuration, URLs, the last line printed
    inst,           \* one CameraStream driven by start() and stop() calls: its flag, handle, threads
    hc,             \* the capture handles of one object across its connect() calls
    req             \* request threads that test, look up and delete registry keys

streamVars == <<pc, ctx, running, is_connected, cap, frame, frame_count, lock,
                url_i, lcap, readFailed, lframe, nh, live, broken, dblRelease>>

regVars == <<camera_streams, everRemoved, redeleted, regFailed>>

envVars == <<up, works>>

viewVars == <<vcam, vpc, vframe, vdisc>>

\* state outside the stream manager; no step of the stream manager writes it
healthVars == <<hpc, hused, hstatus>>

otherVars ==
    <<dbCams, healthVars, tool, met, rz, db, console, inst, hc, req>>

vars == <<regVars, streamVars, envVars, viewVars, tried, otherVars>>

\* positions inside _read_frames
LoopPcs == {"test", "check", "check2", "read", "reading", "pub_acquire",
            "pub_assign", "sleep_ok", "sleep_fail", "sleep_retry"}

\* positions inside connect()
ConnPcs == {"c_try", "c_adopt_cap", "c_adopt_flag", "c_fail"}

\* camera_streams = {} and CameraStream.__init__ : an empty registry, the
\* fields of a fresh stream, no viewer
StreamsInit ==
    /\ camera_streams = {}
    /\ everRemoved = {}
    /\ redeleted = {}
    /\ regFailed = {}
    /\ pc = [c \in Cams |-> "absent"]
    /\ ctx = [c \in Cams |-> "reg"]
    /\ running = [c \in Cams |-> FALSE]
    /\ is_connected = [c \in Cams |-> FALSE]
    /\ cap = [c \in Cams |-> None]
    /\ frame = [c \in Cams |-> None]
    /\ frame_count = [c \in Cams |-> 0]
    /\ lock = [c \in Cams |-> {}]
    /\ url_i = [c \in Cams |-> 1]
    /\ lcap = [c \in Cams |-> None]
    /\ readFailed = [c \in Cams |-> {}]
    /\ lframe = [c \in Cams |-> None]
    /\ nh = [c \in Cams |-> 0]
    /\ live = [c \in Cams |-> {}]
    /\ broken = [c \in Cams |-> {}]
    /\ dblRelease = [c \in Cams |-> FALSE]
    /\ tried = [c \in Cams |-> <<>>]
    /\ vcam = [v \in Watchers |-> None]
    /\ vpc = [v \in Watchers |-> "idle"]
    /\ vframe = [v \in Watchers |-> None]
    /\ vdisc = [v \in Watchers |-> FALSE]

\* the sources of the cameras of the database: each is up or down and
\* answers some of the URL patterns; an id without a row has no source
SourcesInit ==
    /\ up \in {f \in [Cams -> BOOLEAN] : \A c \in Cams \ dbCams : ~f[c]}
    /\ works \in {f \in [Cams -> SUBSET Templates] :
                    \A c \in Cams \ dbCams : f[c] = {}}

\* no status request in progress
HealthInit ==
    /\ hpc = "idle"
    /\ hused = 0
    /\ hstatus = {}

\* camera_stream.py is not running. HikvisionCamera.__init__: cap = None,
\* is_recording = False, video_writer = None, show_fps = True. open and
\* wopen count the capture handles and the video writers opened and not
\* released (a release of a released one counts below zero)
ToolOff ==
    [pc |-> "off", cap |-> None, open |-> 0, up |-> FALSE, broken |-> FALSE,
     reconnect_attempts |-> 0, frame_count |-> 0, fps_new |-> FALSE,
     is_recording |-> FALSE, video_writer |-> FALSE, wopen |-> 0,
     show_fps |-> TRUE, end |-> "none", manual |-> FALSE]

\* no frame is being normalised
RzOff == [pc |-> "off", prog |-> "none", w |-> 0, h |-> 0, ow |-> 0, oh |-> 0]

\* CameraStream.__init__: frame_count = 0, fps = 0; no loop is observed
MetOff == [pc |-> "off", frame_count |-> 0, fps_new |-> FALSE]

\* ip_address of a request: the key is missing (None), the value is the
\* empty string, or it names a host
NoHost == "none"

EmptyHost == "empty"

AHost == "host"

Hosts == {NoHost, EmptyHost, AHost}

\* names of cameras (the column is unique)
Names == {"front", "back"}

\* the name of the row with id i in a table that is given
NameOf == <<"front", "back">>

\* Camera(name=n, ip_address=h, ..., is_active=True)
Row(n, h) == [name |-> n, ip_address |-> h, is_active |-> TRUE]

\* no CRUD request has been answered
NoResp == [op |-> "none", id |-> 0, code |-> 0]

\* the table with one active row per id of ids (ids are 1, 2, ...: the
\* autoincrement key), each naming a host
DbOf(ids) ==
    [rows |-> [i \in 1..Cardinality(ids) |-> Row(NameOf[i], AHost)],
     resp |-> NoResp, err |-> "none"]

\* the loop threads one instance is followed through
MaxThreads == 2

Threads == 1..MaxThreads

\* CameraStream.__init__: running = False, cap = None; no thread; no call
\* is made on it
InstOff ==
    [pc |-> "off", running |-> FALSE, cap |-> FALSE,
     th |-> [t \in Threads |-> "none"]]

\* the connect() calls one object is followed through
MaxCalls == 2

\* no connect() is followed handle by handle: no handle exists, the local
\* `cap` is unbound (None), self.cap is None
HcOff ==
    [pc |-> "off", prog |-> "none", i |-> 0, cap |-> None, self_cap |-> None,
     open |-> {}, made |-> {}, nh |-> 0, calls |-> 0, ret |-> FALSE, tried |-> <<>>]

\* the requests served at the same time (threaded=True)
NumRequests == 2

Requests == 1..NumRequests

\* a request thread that serves nothing
NoRequest == [kind |-> "none", id |-> None, pc |-> "idle", code |-> 0, keyerror |-> FALSE]

\* no request on the registry is followed statement by statement
ReqOff == [pc |-> "off", streams |-> {}, th |-> [r \in Requests |-> NoRequest]]

\* no connect() is observed on its output
ConsoleOff ==
    [pc |-> "off", prog |-> "none", username |-> <<>>, password |-> <<>>,
     ip |-> <<>>, stream_type |-> "sub", urls |-> <<>>, i |-> 0, line |-> <<>>]

\* one camera row in the database
Init ==
    /\ dbCams = {1}
    /\ StreamsInit
    /\ SourcesInit
    /\ HealthInit
    /\ db = DbOf(dbCams)
    /\ console = ConsoleOff
    /\ inst = InstOff
    /\ hc = HcOff
    /\ req = ReqOff
    /\ tool = ToolOff
    /\ met = MetOff
    /\ rz = RzOff

\* ------------------------------------------------------------ environment
\* the camera or the network comes back
SourceUp(c) ==
    /\ c \in dbCams
    /\ ~up[c]
    /\ up' = [up EXCEPT ![c] = TRUE]
    /\ UNCHANGED <<regVars, streamVars, works, viewVars>>
    /\ UNCHANGED <<tried, otherVars>>

\* the camera or the network goes away: every open connection to it is lost
SourceDown(c) ==
    /\ c \in dbCams
    /\ up[c]
    /\ up' = [up EXCEPT ![c] = FALSE]
    /\ broken' = [broken EXCEPT ![c] = live[c]]
    /\ UNCHANGED <<regVars, works, viewVars, pc, ctx, running, is_connected, cap,
                   frame, frame_count, lock, url_i, lcap, readFailed, lframe, nh, live,
                   dblRelease>>
    /\ UNCHANGED <<tried, otherVars>>

\* the handles one stream is followed through when its backend closes them
MaxHandles == 2

\* the capture backend closes the handle the stream holds (the stream ended,
\* the demuxer gave up): isOpened() is false from now on
CapCloses(c) ==
    /\ cap[c] # None
    /\ cap[c] \in live[c]
    /\ nh[c] < MaxHandles
    /\ live' = [live EXCEPT ![c] = @ \ {cap[c]}]
    /\ broken' = [broken EXCEPT ![c] = @ \ {cap[c]}]
    /\ UNCHANGED <<regVars, up, works, viewVars, pc, ctx, running, is_connected,
                   cap, frame, frame_count, lock, url_i, lcap, readFailed, lframe,
                   nh, dblRelease>>
    /\ UNCHANGED <<tried, otherVars>>

\* cv2.VideoCapture(url) + isOpened() + first read() of candidate i
CandidateOk(c, i) == up[c] /\ i \in works[c]

\* an isOpened() that reports every handle closed
isOpenedNever(c, h) == FALSE

\* cap.isOpened() of a handle the stream holds
isOpened(c, h) == h \in live[c]

\* cap.read() on handle h yields a frame
ReadOk(c, h) == h \in live[c] /\ h \notin broken[c] /\ up[c]

\* ---------------------------------------------------- CameraStream.connect
\* entry of connect(): urls = self.get_rtsp_urls(); for url in urls
connect(c, who) ==
    /\ pc' = [pc EXCEPT ![c] = "c_try"]
    /\ ctx' = [ctx EXCEPT ![c] = who]
    /\ url_i' = [url_i EXCEPT ![c] = 1]
    /\ tried' = [tried EXCEPT ![c] = <<>>]

\* the ways one candidate can fail: cv2.VideoCapture raises, isOpened() is
\* false, the first read() yields no frame
FailKinds == {"exc", "notopen", "noframe"}

\* a failure that leaves connect() as an exception when the candidate raised
candidateFailedRaises(c, kind) ==
    /\ tried' = [tried EXCEPT ![c] = Append(@, kind)]
    /\ IF kind = "exc"
       THEN /\ pc' = [pc EXCEPT ![c] = "crashed"]
            /\ UNCHANGED url_i
       ELSE IF url_i[c] < NumTemplates
            THEN /\ url_i' = [url_i EXCEPT ![c] = @ + 1]
                 /\ UNCHANGED pc
            ELSE /\ url_i' = [url_i EXCEPT ![c] = 1]
                 /\ pc' = [pc EXCEPT ![c] = "c_fail"]
    /\ UNCHANGED <<nh, live, lcap>>

\* the candidate failed: `except Exception` logs, a handle that is not open
\* or yields no frame falls through (released at once); the for loop goes
\* on to the next URL, or ends
candidateFailed(c, kind) ==
    /\ tried' = [tried EXCEPT ![c] = Append(@, kind)]
    /\ IF url_i[c] < NumTemplates
       THEN /\ url_i' = [url_i EXCEPT ![c] = @ + 1]
            /\ UNCHANGED pc
       ELSE /\ url_i' = [url_i EXCEPT ![c] = 1]
            /\ pc' = [pc EXCEPT ![c] = "c_fail"]
    /\ UNCHANGED <<nh, live, lcap>>

\* a success after which the for loop goes on to the next URL
candidateOkNoReturn(c) ==
    /\ tried' = [tried EXCEPT ![c] = Append(@, "ok")]
    /\ nh' = [nh EXCEPT ![c] = @ + 1]
    /\ live' = [live EXCEPT ![c] = @ \cup {nh[c] + 1}]
    /\ lcap' = [lcap EXCEPT ![c] = nh[c] + 1]
    /\ IF url_i[c] < NumTemplates
       THEN /\ url_i' = [url_i EXCEPT ![c] = @ + 1]
            /\ UNCHANGED pc
       ELSE /\ pc' = [pc EXCEPT ![c] = "c_adopt_cap"]
            /\ UNCHANGED url_i

\* the candidate opened and yielded a frame: the for loop is left with the
\* handle in `cap`
candidateOk(c) ==
    /\ tried' = [tried EXCEPT ![c] = Append(@, "ok")]
    /\ nh' = [nh EXCEPT ![c] = @ + 1]
    /\ live' = [live EXCEPT ![c] = @ \cup {nh[c] + 1}]
    /\ lcap' = [lcap EXCEPT ![c] = nh[c] + 1]
    /\ pc' = [pc EXCEPT ![c] = "c_adopt_cap"]
    /\ UNCHANGED url_i

\* one iteration of the for loop: open candidate url_i and read one frame
ConnectTry(c) ==
    /\ pc[c] = "c_try"
    /\ IF CandidateOk(c, url_i[c])
       THEN candidateOk(c)
       ELSE \E kind \in FailKinds : candidateFailed(c, kind)
    /\ UNCHANGED <<regVars, envVars, viewVars, ctx, running, is_connected, cap,
                   frame, frame_count, lock, readFailed, lframe, broken, dblRelease>>
    /\ UNCHANGED otherVars

\* self.cap = cap
ConnectAdoptCap(c) ==
    /\ pc[c] = "c_adopt_cap"
    /\ cap' = [cap EXCEPT ![c] = lcap[c]]
    /\ lcap' = [lcap EXCEPT ![c] = None]
    /\ pc' = [pc EXCEPT ![c] = "c_adopt_flag"]
    /\ UNCHANGED <<regVars, envVars, viewVars, ctx, running, is_connected,
                   frame, frame_count, lock, url_i, readFailed, lframe, nh, live,
                   broken, dblRelease>>
    /\ UNCHANGED <<tried, otherVars>>

\* CameraStream.start: if self.running: return; self.running = True; spawn
start(c) ==
    IF running[c]
    THEN UNCHANGED <<running, pc>>
    ELSE /\ running' = [running EXCEPT ![c] = TRUE]
         /\ pc' = [pc EXCEPT ![c] = "test"]

\* connect() returns True to create_camera / init_cameras / add_camera:
\* self.is_connected = True; stream.start(); camera_streams[cam.id] = stream
RegConnected(c) ==
    /\ pc[c] = "c_adopt_flag" /\ ctx[c] = "reg"
    /\ is_connected' = [is_connected EXCEPT ![c] = TRUE]
    /\ start(c)
    /\ camera_streams' = camera_streams \cup {c}
    /\ UNCHANGED <<everRemoved, redeleted, regFailed, envVars, viewVars, ctx,
                   cap, frame, frame_count, lock, url_i, lcap, readFailed, lframe, nh,
                   live, broken, dblRelease>>
    /\ tried' = [tried EXCEPT ![c] = <<>>]
    /\ UNCHANGED otherVars

\* a failed connect() that leaves the caller as an exception: no entry
RegNotConnectedRaises(c) ==
    /\ pc[c] = "c_fail" /\ ctx[c] = "reg"
    /\ is_connected' = [is_connected EXCEPT ![c] = FALSE]
    /\ pc' = [pc EXCEPT ![c] = "crashed"]
    /\ regFailed' = regFailed \cup {c}
    /\ UNCHANGED <<camera_streams, everRemoved, redeleted, envVars, viewVars, ctx,
                   running, cap, frame, frame_count, lock, url_i, lcap, readFailed,
                   lframe, nh, live, broken, dblRelease>>
    /\ tried' = [tried EXCEPT ![c] = <<>>]
    /\ UNCHANGED otherVars

\* connect() returns False to create_camera / init_cameras / add_camera:
\* self.is_connected = False; start() is skipped; the entry is added
RegNotConnected(c) ==
    /\ pc[c] = "c_fail" /\ ctx[c] = "reg"
    /\ is_connected' = [is_connected EXCEPT ![c] = FALSE]
    /\ pc' = [pc EXCEPT ![c] = "nothread"]
    /\ camera_streams' = camera_streams \cup {c}
    /\ regFailed' = regFailed \cup {c}
    /\ UNCHANGED <<everRemoved, redeleted, envVars, viewVars, ctx, running,
                   cap, frame, frame_count, lock, url_i, lcap, readFailed, lframe, nh,
                   live, broken, dblRelease>>
    /\ tried' = [tried EXCEPT ![c] = <<>>]
    /\ UNCHANGED otherVars

\* connect() returns True inside _read_frames: continue
LoopConnected(c) ==
    /\ pc[c] = "c_adopt_flag" /\ ctx[c] = "loop"
    /\ is_connected' = [is_connected EXCEPT ![c] = TRUE]
    /\ pc' = [pc EXCEPT ![c] = "test"]
    /\ UNCHANGED <<regVars, envVars, viewVars, ctx, running, cap, frame,
                   frame_count, lock, url_i, lcap, readFailed, lframe, nh, live,
                   broken, dblRelease>>
    /\ tried' = [tried EXCEPT ![c] = <<>>]
    /\ UNCHANGED otherVars

\* a loop that gives up after a failed connect(): break
LoopConnectFailedGivesUp(c) ==
    /\ pc[c] = "c_fail" /\ ctx[c] = "loop"
    /\ is_connected' = [is_connected EXCEPT ![c] = FALSE]
    /\ pc' = [pc EXCEPT ![c] = "exited"]
    /\ UNCHANGED <<regVars, envVars, viewVars, ctx, running, cap, frame,
                   frame_count, lock, url_i, lcap, readFailed, lframe, nh, live,
                   broken, dblRelease>>
    /\ tried' = [tried EXCEPT ![c] = <<>>]
    /\ UNCHANGED otherVars

\* connect() returns False inside _read_frames: time.sleep(3); continue
LoopConnectFailed(c) ==
    /\ pc[c] = "c_fail" /\ ctx[c] = "loop"
    /\ is_connected' = [is_connected EXCEPT ![c] = FALSE]
    /\ pc' = [pc EXCEPT ![c] = "sleep_retry"]
    /\ UNCHANGED <<regVars, envVars, viewVars, ctx, running, cap, frame,
                   frame_count, lock, url_i, lcap, readFailed, lframe, nh, live,
                   broken, dblRelease>>
    /\ tried' = [tried EXCEPT ![c] = <<>>]
    /\ UNCHANGED otherVars

\* create_camera / init_cameras / add_camera: stream = CameraStream(...),
\* then stream.connect() in the caller's thread
Register(c) ==
    /\ c \in dbCams
    /\ pc[c] = "absent"
    /\ connect(c, "reg")
    /\ UNCHANGED <<regVars, envVars, viewVars, running, is_connected, cap,
                   frame, frame_count, lock, lcap, readFailed, lframe, nh, live,
                   broken, dblRelease>>
    /\ UNCHANGED otherVars

\* ----------------------------------------------- CameraStream._read_frames
\* a loop test that ignores the flag: while True
LoopTestForever(c) ==
    /\ pc[c] = "test"
    /\ pc' = [pc EXCEPT ![c] = "check"]
    /\ UNCHANGED <<regVars, envVars, viewVars, ctx, running, is_connected, cap,
                   frame, frame_count, lock, url_i, lcap, readFailed, lframe, nh, live,
                   broken, dblRelease>>
    /\ UNCHANGED <<tried, otherVars>>

\* while self.running:
LoopTest(c) ==
    /\ pc[c] = "test"
    /\ pc' = [pc EXCEPT ![c] = IF running[c] THEN "check" ELSE "exited"]
    /\ UNCHANGED <<regVars, envVars, viewVars, ctx, running, is_connected, cap,
                   frame, frame_count, lock, url_i, lcap, readFailed, lframe, nh, live,
                   broken, dblRelease>>
    /\ UNCHANGED <<tried, otherVars>>

\* if not self.cap ...: first load of self.cap
LoopCheck(c) ==
    /\ pc[c] = "check"
    /\ IF cap[c] = None
       THEN connect(c, "loop")
       ELSE /\ pc' = [pc EXCEPT ![c] = "check2"]
            /\ UNCHANGED <<ctx, url_i, tried>>
    /\ UNCHANGED <<regVars, envVars, viewVars, running, is_connected, cap,
                   frame, frame_count, lock, lcap, readFailed, lframe, nh, live,
                   broken, dblRelease>>
    /\ UNCHANGED otherVars

\* ... or not self.cap.isOpened(): second load of self.cap; None has no
\* isOpened, the AttributeError ends the thread
LoopCheck2(c) ==
    /\ pc[c] = "check2"
    /\ IF cap[c] = None
       THEN /\ pc' = [pc EXCEPT ![c] = "crashed"]
            /\ UNCHANGED <<ctx, url_i, tried>>
       ELSE IF ~isOpened(c, cap[c])
            THEN connect(c, "loop")
            ELSE /\ pc' = [pc EXCEPT ![c] = "read"]
                 /\ UNCHANGED <<ctx, url_i, tried>>
    /\ UNCHANGED <<regVars, envVars, viewVars, running, is_connected, cap,
                   frame, frame_count, lock, lcap, readFailed, lframe, nh, live,
                   broken, dblRelease>>
    /\ UNCHANGED otherVars

\* self.cap.read(): load of self.cap and entry into the blocking read
LoopRead(c) ==
    /\ pc[c] = "read"
    /\ IF cap[c] = None
       THEN /\ pc' = [pc EXCEPT ![c] = "crashed"]
            /\ UNCHANGED lcap
       ELSE /\ pc' = [pc EXCEPT ![c] = "reading"]
            /\ lcap' = [lcap EXCEPT ![c] = cap[c]]
    /\ UNCHANGED <<regVars, envVars, viewVars, ctx, running, is_connected, cap,
                   frame, frame_count, lock, url_i, readFailed, lframe, nh, live,
                   broken, dblRelease>>
    /\ UNCHANGED <<tried, otherVars>>

\* ret, frame = <handle>.read() returns. With a frame: resize, frame_count += 1,
\* fps, putText (all local to the thread); without: else-branch, sleep(0.1).
LoopReading(c) ==
    /\ pc[c] = "reading"
    /\ IF ReadOk(c, lcap[c])
       THEN /\ frame_count[c] < MaxFrames
            /\ UNCHANGED readFailed
            /\ frame_count' = [frame_count EXCEPT ![c] = @ + 1]
            /\ lframe' = [lframe EXCEPT ![c] = frame_count[c] + 1]
            /\ pc' = [pc EXCEPT ![c] = "pub_acquire"]
       ELSE /\ readFailed' = [readFailed EXCEPT ![c] = @ \cup {lcap[c]}]
            /\ pc' = [pc EXCEPT ![c] = "sleep_fail"]
            /\ UNCHANGED <<frame_count, lframe>>
    /\ lcap' = [lcap EXCEPT ![c] = None]
    /\ UNCHANGED <<regVars, envVars, viewVars, ctx, running, is_connected, cap,
                   frame, lock, url_i, nh, live, broken, dblRelease>>
    /\ UNCHANGED <<tried, otherVars>>

\* an acquire that does not wait for the holder
acquireNoWait(c, t) == lock' = [lock EXCEPT ![c] = @ \cup {t}]

\* threading.Lock.acquire by thread t: blocks while the lock is held
acquire(c, t) ==
    /\ lock[c] = {}
    /\ lock' = [lock EXCEPT ![c] = {t}]

\* leaving the critical section without releasing
releaseNothing(c, t) == UNCHANGED lock

\* threading.Lock.release by thread t
release_lock(c, t) == lock' = [lock EXCEPT ![c] = @ \ {t}]

\* with self.lock:  (entry)
LoopPubAcquire(c) ==
    /\ pc[c] = "pub_acquire"
    /\ acquire(c, <<"loop">>)
    /\ pc' = [pc EXCEPT ![c] = "pub_assign"]
    /\ UNCHANGED <<regVars, envVars, viewVars, ctx, running, is_connected, cap,
                   frame, frame_count, url_i, lcap, readFailed, lframe, nh, live,
                   broken, dblRelease>>
    /\ UNCHANGED <<tried, otherVars>>

\* a publish into a slot shared by all streams (a class attribute)
LoopPubAssignShared(c) ==
    /\ pc[c] = "pub_assign"
    /\ frame' = [x \in Cams |-> lframe[c]]
    /\ lframe' = [lframe EXCEPT ![c] = None]
    /\ release_lock(c, <<"loop">>)
    /\ pc' = [pc EXCEPT ![c] = "sleep_ok"]
    /\ UNCHANGED <<regVars, envVars, viewVars, ctx, running, is_connected, cap,
                   frame_count, url_i, lcap, readFailed, nh, live, broken, dblRelease>>
    /\ UNCHANGED <<tried, otherVars>>

\* self.frame = frame  (and exit of the with block)
LoopPubAssign(c) ==
    /\ pc[c] = "pub_assign"
    /\ frame' = [frame EXCEPT ![c] = lframe[c]]
    /\ lframe' = [lframe EXCEPT ![c] = None]
    /\ release_lock(c, <<"loop">>)
    /\ pc' = [pc EXCEPT ![c] = "sleep_ok"]
    /\ UNCHANGED <<regVars, envVars, viewVars, ctx, running, is_connected, cap,
                   frame_count, url_i, lcap, readFailed, nh, live, broken, dblRelease>>
    /\ UNCHANGED <<tried, otherVars>>

\* time.sleep(1.0 / self.fps_limit), time.sleep(0.1), time.sleep(3) return
LoopSleep(c) ==
    /\ pc[c] \in {"sleep_ok", "sleep_fail", "sleep_retry"}
    /\ pc' = [pc EXCEPT ![c] = "test"]
    /\ UNCHANGED <<regVars, envVars, viewVars, ctx, running, is_connected, cap,
                   frame, frame_count, lock, url_i, lcap, readFailed, lframe, nh, live,
                   broken, dblRelease>>
    /\ UNCHANGED <<tried, otherVars>>

\* ---------------------------------------------------- CameraStream.stop
\* the fields stop() reads and writes, as one record
StreamOf(c) ==
    [running |-> running[c], is_connected |-> is_connected[c], cap |-> cap[c],
     live |-> live[c], dbl |-> dblRelease[c]]

\* <handle>.release(): a second release of the same handle is recorded
release(s, h) ==
    [s EXCEPT !.live = @ \ {h}, !.dbl = @ \/ (h \notin s.live)]

\* stop() of dual_camera_stream.py / db_camera_stream.py: cap is kept
stopKeepsCap(s) ==
    IF s.cap # None
    THEN release([s EXCEPT !.running = FALSE, !.is_connected = FALSE], s.cap)
    ELSE [s EXCEPT !.running = FALSE, !.is_connected = FALSE]

\* self.running = False; self.is_connected = False;
\* if self.cap: self.cap.release(); self.cap = None
stop(s) ==
    IF s.cap # None
    THEN [release([s EXCEPT !.running = FALSE, !.is_connected = FALSE], s.cap)
            EXCEPT !.cap = None]
    ELSE [s EXCEPT !.running = FALSE, !.is_connected = FALSE]

\* if camera_id in camera_streams: camera_streams[camera_id].stop(); del ...
removeStream(c) ==
    /\ IF c \in camera_streams
       THEN /\ running' = [running EXCEPT ![c] = stop(StreamOf(c)).running]
            /\ is_connected' =
                 [is_connected EXCEPT ![c] = stop(StreamOf(c)).is_connected]
            /\ cap' = [cap EXCEPT ![c] = stop(StreamOf(c)).cap]
            /\ live' = [live EXCEPT ![c] = stop(StreamOf(c)).live]
            /\ dblRelease' = [dblRelease EXCEPT ![c] = stop(StreamOf(c)).dbl]
            /\ broken' = [broken EXCEPT ![c] = @ \cap stop(StreamOf(c)).live]
            /\ camera_streams' = camera_streams \ {c}
            /\ everRemoved' = everRemoved \cup {c}
            /\ UNCHANGED redeleted
       ELSE /\ redeleted' = IF c \in everRemoved THEN redeleted \cup {c}
                                                 ELSE redeleted
            /\ UNCHANGED <<camera_streams, everRemoved, running, is_connected,
                           cap, live, dblRelease, broken>>
    /\ UNCHANGED <<regFailed, envVars, viewVars, pc, ctx, frame, frame_count,
                   lock, url_i, lcap, readFailed, lframe, nh>>

\* delete_camera_api / delete_camera for a camera that has a stream object
\* (the row of the table is followed in DbSpec)
DeleteCamera(c) ==
    /\ pc[c] # "absent"
    /\ removeStream(c)
    /\ UNCHANGED <<tried, otherVars>>

\* ------------------------------------- stream_camera / generate_frames
\* stream_camera(camera_id): a known id gets a generate_frames loop, an
\* unknown one a 404
StartViewer(v, c) ==
    /\ vpc[v] = "idle"
    /\ IF c \in camera_streams
       THEN /\ vcam' = [vcam EXCEPT ![v] = c]
            /\ vpc' = [vpc EXCEPT ![v] = "get_acquire"]
       ELSE UNCHANGED <<vcam, vpc>>
    /\ UNCHANGED <<regVars, streamVars, envVars, vframe, vdisc>>
    /\ UNCHANGED <<tried, otherVars>>

\* get_frame: with self.lock:  (entry); the loop is at its top after a
\* sleep, or after the `continue` of an encode that failed ("skipped")
ViewerAcquire(v) ==
    /\ vpc[v] \in {"get_acquire", "skipped"}
    /\ acquire(vcam[v], <<"viewer", v>>)
    /\ vpc' = [vpc EXCEPT ![v] = "get_copy"]
    /\ vdisc' = [vdisc EXCEPT ![v] = ~is_connected[vcam[v]]]
    /\ UNCHANGED <<regVars, envVars, vcam, vframe, pc, ctx, running,
                   is_connected, cap, frame, frame_count, url_i, lcap, readFailed,
                   lframe, nh, live, broken, dblRelease>>
    /\ UNCHANGED <<tried, otherVars>>

\* a get_frame that hands out the first frame ever published
ViewerCopyStale(v) ==
    /\ vpc[v] = "get_copy"
    /\ vframe' = [vframe EXCEPT ![v] = IF frame[vcam[v]] = None THEN None ELSE 1]
    /\ release_lock(vcam[v], <<"viewer", v>>)
    /\ vpc' = [vpc EXCEPT ![v] = "encode"]
    /\ UNCHANGED <<regVars, envVars, vcam, vdisc, pc, ctx, running, is_connected, cap,
                   frame, frame_count, url_i, lcap, readFailed, lframe, nh, live,
                   broken, dblRelease>>
    /\ UNCHANGED <<tried, otherVars>>

\* get_frame: return self.frame.copy() if self.frame is not None else None
\* (and exit of the with block); frame = self.get_frame()
ViewerCopy(v) ==
    /\ vpc[v] = "get_copy"
    /\ vframe' = [vframe EXCEPT ![v] = frame[vcam[v]]]
    /\ release_lock(vcam[v], <<"viewer", v>>)
    /\ vpc' = [vpc EXCEPT ![v] = "encode"]
    /\ UNCHANGED <<regVars, envVars, vcam, vdisc, pc, ctx, running, is_connected, cap,
                   frame, frame_count, url_i, lcap, readFailed, lframe, nh, live,
                   broken, dblRelease>>
    /\ UNCHANGED <<tried, otherVars>>

\* generate_frames without the placeholder substitution
ImageAsIs(f) == f

\* if frame is None: frame = self._placeholder()
Image(f) == IF f = None THEN Placeholder ELSE f

\* an encode whose failure ends the generator
ViewerEncodeFatal(v) ==
    /\ vpc[v] = "encode"
    /\ \E ok \in BOOLEAN :
         /\ vframe' = [vframe EXCEPT ![v] = Image(vframe[v])]
         /\ vpc' = [vpc EXCEPT ![v] = IF ok THEN "yield" ELSE "idle"]
    /\ UNCHANGED <<regVars, streamVars, envVars, vcam, vdisc>>
    /\ UNCHANGED <<tried, otherVars>>

\* cv2.imencode: ok -> the chunk is yielded; not ret -> continue
ViewerEncode(v) ==
    /\ vpc[v] = "encode"
    /\ \E ok \in BOOLEAN :
         /\ vframe' = [vframe EXCEPT ![v] = Image(vframe[v])]
         /\ vpc' = [vpc EXCEPT ![v] = IF ok THEN "yield" ELSE "skipped"]
    /\ UNCHANGED <<regVars, streamVars, envVars, vcam, vdisc>>
    /\ UNCHANGED <<tried, otherVars>>

\* the HTTP layer asks for the next chunk: the generator resumes
ViewerResume(v) ==
    /\ vpc[v] = "yield"
    /\ vpc' = [vpc EXCEPT ![v] = "sleep"]
    /\ UNCHANGED <<regVars, streamVars, envVars, vcam, vframe, vdisc>>
    /\ UNCHANGED <<tried, otherVars>>

\* time.sleep(1.0 / self.fps_limit) returns; while True
ViewerSleep(v) ==
    /\ vpc[v] = "sleep"
    /\ vpc' = [vpc EXCEPT ![v] = "get_acquire"]
    /\ UNCHANGED <<regVars, streamVars, envVars, vcam, vframe, vdisc>>
    /\ UNCHANGED <<tried, otherVars>>

\* the client goes away: the HTTP layer closes the suspended generator
ViewerDisconnect(v) ==
    /\ vpc[v] = "yield"
    /\ vpc' = [vpc EXCEPT ![v] = "idle"]
    /\ vcam' = [vcam EXCEPT ![v] = None]
    /\ vframe' = [vframe EXCEPT ![v] = None]
    /\ vdisc' = [vdisc EXCEPT ![v] = FALSE]
    /\ UNCHANGED <<regVars, streamVars, envVars>>
    /\ UNCHANGED <<tried, otherVars>>

\* ------------------------------------------------------------------ health
\* status = {..., 'cameras': {}}; for ... in camera_streams.items(): the
\* iterator remembers the size of the dict
HealthStart ==
    /\ hpc = "idle"
    /\ hpc' = "iter"
    /\ hused' = Cardinality(camera_streams)
    /\ hstatus' = {}
    /\ UNCHANGED <<regVars, streamVars, envVars, viewVars, tried, dbCams, db, console, inst, hc, req, tool,
                   met, rz>>

\* next() of the dict iterator and the loop body: a dict whose size differs
\* from the remembered one raises RuntimeError (health has no handler);
\* otherwise the next entry is reported, or the loop ends
HealthIter ==
    /\ hpc = "iter"
    /\ IF Cardinality(camera_streams) # hused
       THEN /\ hpc' = "error"
            /\ UNCHANGED hstatus
       ELSE IF camera_streams \ hstatus # {}
            THEN /\ \E c \in camera_streams \ hstatus : hstatus' = hstatus \cup {c}
                 /\ UNCHANGED hpc
            ELSE /\ hpc' = "done"
                 /\ UNCHANGED hstatus
    /\ UNCHANGED <<regVars, streamVars, envVars, viewVars, tried, dbCams, db, console, inst, hc, req, hused,
                   tool, met, rz>>

\* return jsonify(status), or the 500 response of the unhandled exception
HealthReturn ==
    /\ hpc \in {"done", "error"}
    /\ hpc' = "idle"
    /\ hused' = 0
    /\ hstatus' = {}
    /\ UNCHANGED <<regVars, streamVars, envVars, viewVars, tried, dbCams, db, console, inst, hc, req, tool,
                   met, rz>>

\* ---------------------------------------------- frame counter and fps
\* frame_count % 30 == 0
FpsEvery == 30

\* an fps that is recomputed on every frame
fpsDueAlways(n) == TRUE

\* if self.frame_count % 30 == 0: self.fps = self.frame_count / elapsed
fpsDue(n) == n % FpsEvery = 0

\* self.frame_count += 1 and the fps update, on the record m of a loop
countFrame(m) ==
    [m EXCEPT !.frame_count = @ + 1, !.fps_new = fpsDue(m.frame_count + 1)]

\* _read_frames seen through its counters: one pass of the while loop.
\* connect() and a read without a frame leave the counters alone.
MetLoop ==
    /\ met.pc = "loop"
    /\ \E step \in {"connect", "read_ok", "read_fail"} :
         IF step = "read_ok"
         THEN /\ met.frame_count < MaxCount
              /\ met' = countFrame(met)
         ELSE met' = [met EXCEPT !.fps_new = FALSE]
    /\ UNCHANGED <<regVars, streamVars, envVars, viewVars, tried, dbCams, db, console, inst, hc, req,
                   healthVars, tool, rz>>

\* ------------------------------------------------- frame normalisation
\* Python floats are IEEE-754 binary64. A positive float is a record
\* [m, e]: m the 53 bits of its significand, most significant (a 1) first,
\* e the exponent of the last bit; its value is BitsToInt(m) * 2^e.
Precision == 53

\* digits handled at a time by the digit-by-digit operations
Chunk == 9

\* the k low binary digits of n, most significant first
BitsFixed(n, k) == [i \in 1..k |-> (n \div 2^(k - i)) % 2]

\* the number of binary digits of n (n < 2^30)
BitLen(n) == CHOOSE l \in 0..30 : n < 2^l /\ (l = 0 \/ n >= 2^(l - 1))

\* the binary digits of n, most significant first (<<>> for 0)
Bits(n) == BitsFixed(n, BitLen(n))

\* the value of at most 30 binary digits
RECURSIVE BitsToInt(_)
BitsToInt(bs) ==
    IF bs = <<>> THEN 0
    ELSE 2 * BitsToInt(SubSeq(bs, 1, Len(bs) - 1)) + bs[Len(bs)]

Zeros(n) == [i \in 1..n |-> 0]

\* bs + 1
Inc(bs) ==
    IF \A i \in 1..Len(bs) : bs[i] = 1
    THEN <<1>> \o Zeros(Len(bs))
    ELSE LET j == CHOOSE i \in 1..Len(bs) :
                      bs[i] = 0 /\ \A k \in (i + 1)..Len(bs) : bs[k] = 1
         IN SubSeq(bs, 1, j - 1) \o <<1>> \o Zeros(Len(bs) - j)

\* round to nearest, ties to even: bs are the leading digits of an exact
\* positive value (first digit 1), e the exponent of the last of them,
\* sticky tells that non-zero digits follow
Round(bs, e, sticky) ==
    IF Len(bs) <= Precision
    THEN [m |-> bs \o Zeros(Precision - Len(bs)), e |-> e - (Precision - Len(bs))]
    ELSE LET keep == SubSeq(bs, 1, Precision)
             guard == bs[Precision + 1]
             st == sticky \/ \E k \in (Precision + 2)..Len(bs) : bs[k] = 1
             up1 == guard = 1 /\ (st \/ keep[Precision] = 1)
             m1 == IF up1 THEN Inc(keep) ELSE keep
             e1 == e + (Len(bs) - Precision)
         IN IF Len(m1) > Precision
            THEN [m |-> SubSeq(m1, 1, Precision), e |-> e1 + 1]
            ELSE [m |-> m1, e |-> e1]

\* the next n digits of r / b after the binary point (0 <= r < b < 2^21),
\* and the remainder left: long division, Chunk digits at a time
RECURSIVE FracBits(_, _, _)
FracBits(r, b, n) ==
    IF n = 0 THEN [bits |-> <<>>, r |-> r]
    ELSE LET k == IF n < Chunk THEN n ELSE Chunk
             rest == FracBits((r * 2^k) % b, b, n - k)
         IN [bits |-> BitsFixed((r * 2^k) \div b, k) \o rest.bits, r |-> rest.r]

\* the zeros that follow the binary point of r / b (0 < r < b), and the
\* remainder before the first 1
RECURSIVE SkipZeros(_, _, _)
SkipZeros(r, b, z) ==
    IF 2 * r >= b THEN [z |-> z, r |-> r] ELSE SkipZeros(2 * r, b, z + 1)

\* a / b of two positive ints: the correctly rounded quotient
fdiv(a, b) ==
    LET ib == Bits(a \div b) IN
    IF ib # <<>>
    THEN LET n == IF Len(ib) > Precision THEN 0 ELSE Precision + 1 - Len(ib)
             f == FracBits(a % b, b, n)
         IN Round(ib \o f.bits, -n, f.r # 0)
    ELSE LET s == SkipZeros(a, b, 0)
             f == FracBits(s.r, b, Precision + 1)
         IN Round(f.bits, -(s.z + Precision + 1), f.r # 0)

\* the digits of BitsToInt(bs) * h + carry (h < 2^20): long multiplication,
\* Chunk digits at a time
RECURSIVE MulBits(_, _, _)
MulBits(bs, h, carry) ==
    IF bs = <<>> THEN Bits(carry)
    ELSE LET k == IF Len(bs) < Chunk THEN Len(bs) ELSE Chunk
             t == h * BitsToInt(SubSeq(bs, Len(bs) - k + 1, Len(bs))) + carry
         IN MulBits(SubSeq(bs, 1, Len(bs) - k), h, t \div 2^k)
                \o BitsFixed(t % 2^k, k)

\* the digits of bs without leading zeros
Significant(bs) ==
    IF \A i \in 1..Len(bs) : bs[i] = 0 THEN <<>>
    ELSE SubSeq(bs, CHOOSE i \in 1..Len(bs) :
                        bs[i] = 1 /\ \A k \in 1..(i - 1) : bs[k] = 0, Len(bs))

\* h * x of a positive int and a float: the correctly rounded product
fmulInt(h, x) == Round(Significant(MulBits(x.m, h, 0)), x.e, FALSE)

\* int(x): truncation (values below 2^30)
ftrunc(x) ==
    IF x.e >= 0 THEN BitsToInt(x.m \o Zeros(x.e))
    ELSE IF Precision + x.e <= 0 THEN 0
         ELSE BitsToInt(SubSeq(x.m, 1, Precision + x.e))

\* the width above which the servers shrink a frame
ServerMaxWidth == 800

\* MAX_FRAME_WIDTH of the desktop tools
MAX_FRAME_WIDTH == 1280

\* api.py / app_web.py:
\* if w > 800: frame = cv2.resize(frame, (800, int(h * 800 / w)))
resizeServer(w, h) ==
    IF w > ServerMaxWidth
    THEN <<ServerMaxWidth, ftrunc(fdiv(h * ServerMaxWidth, w))>>
    ELSE <<w, h>>

\* camera_stream.py / dual_camera_stream.py / db_camera_stream.py:
\* if w > MAX_FRAME_WIDTH: scale = MAX_FRAME_WIDTH / w;
\* new_w = MAX_FRAME_WIDTH; new_h = int(h * scale)
resizeTool(w, h) ==
    IF w > MAX_FRAME_WIDTH
    THEN <<MAX_FRAME_WIDTH, ftrunc(fmulInt(h, fdiv(MAX_FRAME_WIDTH, w)))>>
    ELSE <<w, h>>

\* frame sizes fed to the normalisation
Widths == (1425..1440) \cup {320, 640, 800, 801, 1024, 1280, 1281, 1920, 2560}

Heights == (530..545) \cup {240, 480, 600, 720, 1080, 1440}

\* h, w = frame.shape[:2] and the resize of one frame
Resize ==
    /\ rz.pc = "in"
    /\ rz' = LET out == IF rz.prog = "server" THEN resizeServer(rz.w, rz.h)
                                              ELSE resizeTool(rz.w, rz.h)
             IN [rz EXCEPT !.pc = "out", !.ow = out[1], !.oh = out[2]]
    /\ UNCHANGED <<regVars, streamVars, envVars, viewVars, tried, dbCams, db, console, inst, hc, req,
                   healthVars, tool, met>>

\* ------------------------------------------- camera_stream.py (desktop tool)
\* MAX_RECONNECT_ATTEMPTS = 5
MAX_RECONNECT_ATTEMPTS == 5

\* the camera of the tool comes back / goes away
ToolSource ==
    /\ tool.pc # "off"
    /\ tool' = IF tool.up
               THEN [tool EXCEPT !.up = FALSE, !.broken = (tool.cap # None)]
               ELSE [tool EXCEPT !.up = TRUE]
    /\ UNCHANGED <<regVars, streamVars, envVars, viewVars, tried, dbCams, db, console, inst, hc, req,
                   healthVars, met, rz>>

\* HikvisionCamera.connect: some candidate opens and yields a frame exactly
\* when the source is up; then self.cap = cap
toolConnect(t) ==
    IF t.up
    THEN [t EXCEPT !.cap = 1, !.open = @ + 1, !.broken = FALSE]
    ELSE t

\* a disconnect that releases the handles and keeps the references
toolDisconnectKeepsCap(t) ==
    [t EXCEPT !.open = IF t.cap # None THEN @ - 1 ELSE @,
              !.broken = FALSE,
              !.wopen = IF t.video_writer THEN @ - 1 ELSE @,
              !.is_recording = IF t.video_writer THEN FALSE ELSE @]

\* HikvisionCamera.disconnect: if self.cap: release, cap = None;
\* if self.video_writer: release, video_writer = None, is_recording = False
toolDisconnect(t) ==
    [t EXCEPT !.cap = None,
              !.open = IF t.cap # None THEN @ - 1 ELSE @,
              !.broken = FALSE,
              !.video_writer = FALSE,
              !.wopen = IF t.video_writer THEN @ - 1 ELSE @,
              !.is_recording = IF t.video_writer THEN FALSE ELSE @]

\* main(): camera.connect(); a failure is sys.exit(1)
ToolMainConnect ==
    /\ tool.pc = "main"
    /\ tool' = IF tool.up
               THEN [toolConnect(tool) EXCEPT !.pc = "stream"]
               ELSE [tool EXCEPT !.pc = "done", !.end = "exit1"]
    /\ UNCHANGED <<regVars, streamVars, envVars, viewVars, tried, dbCams, db, console, inst, hc, req,
                   healthVars, met, rz>>

\* stream(): the entry test and the locals frame_count, reconnect_attempts
ToolStreamEntry ==
    /\ tool.pc = "stream"
    /\ tool' = IF tool.cap = None
               THEN [tool EXCEPT !.pc = "finally", !.end = "return"]
               ELSE [tool EXCEPT !.pc = "read", !.frame_count = 0,
                                 !.reconnect_attempts = 0]
    /\ UNCHANGED <<regVars, streamVars, envVars, viewVars, tried, dbCams, db, console, inst, hc, req,
                   healthVars, met, rz>>

\* ret, frame = self.cap.read() and the rest of the pass up to the key
\* handling; self.cap = None raises AttributeError out of stream()
ToolRead ==
    /\ tool.pc = "read"
    /\ IF tool.cap = None
       THEN tool' = [tool EXCEPT !.pc = "raised", !.end = "exception",
                                 !.fps_new = FALSE]
       ELSE IF tool.up /\ ~tool.broken
            THEN /\ tool.frame_count < MaxCount
                 /\ tool' = [countFrame(tool) EXCEPT !.reconnect_attempts = 0,
                                                     !.pc = "key"]
            ELSE IF tool.reconnect_attempts < MAX_RECONNECT_ATTEMPTS
                 THEN tool' = [tool EXCEPT !.reconnect_attempts = @ + 1,
                                           !.pc = "reconnect",
                                           !.fps_new = FALSE]
                 ELSE tool' = [tool EXCEPT !.pc = "cleanup", !.end = "max",
                                           !.fps_new = FALSE]
    /\ UNCHANGED <<regVars, streamVars, envVars, viewVars, tried, dbCams, db, console, inst, hc, req,
                   healthVars, met, rz>>

\* reconnect(): self.disconnect(); time.sleep(RECONNECT_DELAY)
ToolReconnect ==
    /\ tool.pc \in {"reconnect", "manual"}
    /\ tool' = [toolDisconnect(tool) EXCEPT
                  !.pc = IF tool.pc = "manual" THEN "connect_m" ELSE "connect",
                  !.fps_new = FALSE]
    /\ UNCHANGED <<regVars, streamVars, envVars, viewVars, tried, dbCams, db, console, inst, hc, req,
                   healthVars, met, rz>>

\* reconnect(): return self.connect(), in the stream-lost branch:
\* True -> reconnect_attempts = 0; continue.  False -> sleep; continue
ToolReconnected ==
    /\ tool.pc = "connect"
    /\ tool' = [toolConnect(tool) EXCEPT
                  !.reconnect_attempts = IF tool.up THEN 0 ELSE @,
                  !.pc = "read"]
    /\ UNCHANGED <<regVars, streamVars, envVars, viewVars, tried, dbCams, db, console, inst, hc, req,
                   healthVars, met, rz>>

\* reconnect(): return self.connect(), after the key 'r':
\* True -> frame_count = 0; start_time = time.time()
ToolManualReconnected ==
    /\ tool.pc = "connect_m"
    /\ tool' = [toolConnect(tool) EXCEPT
                  !.frame_count = IF tool.up THEN 0 ELSE @,
                  !.manual = @ \/ tool.up,
                  !.pc = "read"]
    /\ UNCHANGED <<regVars, streamVars, envVars, viewVars, tried, dbCams, db, console, inst, hc, req,
                   healthVars, met, rz>>

\* key = cv2.waitKey(1) & 0xFF and its branches
ToolKey ==
    /\ tool.pc = "key"
    /\ \E key \in {"none", "q", "s", "r", "f", "v"} :
         tool' =
           [CASE key = "q" -> [tool EXCEPT !.pc = "cleanup", !.end = "quit"]
              [] key = "r" -> [tool EXCEPT !.pc = "manual"]
              [] key = "f" -> [tool EXCEPT !.show_fps = ~@, !.pc = "read"]
              [] key = "v" -> [tool EXCEPT !.is_recording = ~@,
                                           !.video_writer = ~tool.is_recording,
                                           !.wopen = IF ~tool.is_recording THEN @ + 1
                                                     ELSE IF tool.video_writer
                                                          THEN @ - 1 ELSE @,
                                           !.pc = "read"]
              [] OTHER -> [tool EXCEPT !.pc = "read"]
            EXCEPT !.fps_new = FALSE]
    /\ UNCHANGED <<regVars, streamVars, envVars, viewVars, tried, dbCams, db, console, inst, hc, req,
                   healthVars, met, rz>>

\* after the while loop: cv2.destroyAllWindows(); self.disconnect()
ToolCleanup ==
    /\ tool.pc = "cleanup"
    /\ tool' = [toolDisconnect(tool) EXCEPT !.pc = "finally"]
    /\ UNCHANGED <<regVars, streamVars, envVars, viewVars, tried, dbCams, db, console, inst, hc, req,
                   healthVars, met, rz>>

\* main(): except Exception: print the error
ToolExcept ==
    /\ tool.pc = "raised"
    /\ tool' = [tool EXCEPT !.pc = "finally"]
    /\ UNCHANGED <<regVars, streamVars, envVars, viewVars, tried, dbCams, db, console, inst, hc, req,
                   healthVars, met, rz>>

\* main(): finally: camera.disconnect()
ToolFinally ==
    /\ tool.pc = "finally"
    /\ tool' = [toolDisconnect(tool) EXCEPT !.pc = "done"]
    /\ UNCHANGED <<regVars, streamVars, envVars, viewVars, tried, dbCams, db, console, inst, hc, req,
                   healthVars, met, rz>>

\* ------------------------------ one CameraStream under start() and stop()
\* the threads of the instance that run _read_frames
Alive(i) == {t \in Threads : i.th[t] \notin {"none", "exited", "crashed"}}

\* the thread start() creates: the next one not yet used
NewThread(i) == CHOOSE t \in Threads : i.th[t] = "none" /\ \A u \in Threads : u < t => i.th[u] # "none"

\* start(): if self.running: return; self.running = True;
\* threading.Thread(target=self._read_frames, daemon=True).start()
InstStart ==
    /\ inst.pc = "made"
    /\ IF inst.running
       THEN UNCHANGED inst
       ELSE /\ \E t \in Threads : inst.th[t] = "none"
            /\ inst' = [inst EXCEPT !.running = TRUE, !.th[NewThread(inst)] = "test"]
    /\ UNCHANGED <<regVars, streamVars, envVars, viewVars, tried, dbCams,
                   healthVars, tool, met, rz, db, console, hc, req>>

\* stop(): self.running = False; self.is_connected = False;
\* if self.cap: self.cap.release(); self.cap = None.  No join.
InstStop ==
    /\ inst.pc = "made"
    /\ inst' = [inst EXCEPT !.running = FALSE, !.cap = FALSE]
    /\ UNCHANGED <<regVars, streamVars, envVars, viewVars, tried, dbCams,
                   healthVars, tool, met, rz, db, console, hc, req>>

\* a step of thread t inside _read_frames: the loop test; the handle test
\* with connect() (which sets self.cap on success and is followed by
\* sleep(3) on failure); read(), which raises on a None handle; the sleeps
InstThread(t) ==
    /\ inst.pc = "made"
    /\ \/ /\ inst.th[t] = "test"
          /\ inst' = [inst EXCEPT !.th[t] = IF inst.running THEN "check" ELSE "exited"]
       \/ /\ inst.th[t] = "check"
          /\ IF inst.cap
             THEN inst' = [inst EXCEPT !.th[t] = "read"]
             ELSE \E ok \in BOOLEAN :
                     inst' = [inst EXCEPT !.cap = ok,
                                          !.th[t] = IF ok THEN "test" ELSE "sleep"]
       \/ /\ inst.th[t] = "read"
          /\ inst' = [inst EXCEPT !.th[t] = IF inst.cap THEN "sleep" ELSE "crashed"]
       \/ /\ inst.th[t] = "sleep"
          /\ inst' = [inst EXCEPT !.th[t] = "test"]
    /\ UNCHANGED <<regVars, streamVars, envVars, viewVars, tried, dbCams,
                   healthVars, tool, met, rz, db, console, hc, req>>

\* ------------------------------------- camera_manager.py and the CRUD requests
\* the table is the sequence of its rows, row i having id i; the rows of a
\* query are given as the sequence of the ids found

\* get_camera_by_id: query(Camera).filter(Camera.id == camera_id).first()
get_camera_by_id(rows, camera_id) ==
    IF camera_id \in DOMAIN rows THEN <<camera_id>> ELSE <<>>

\* get_all_cameras: query(Camera) [.filter(Camera.is_active == True)] .all()
get_all_cameras(rows, active_only) ==
    {i \in DOMAIN rows : active_only => rows[i].is_active}

\* what makes the commit of a row with name n and host h fail, `self` being
\* the id of the row when it is already stored: ip_address is
\* nullable=False, name is unique over all rows whatever their is_active,
\* and the database itself may fail
CommitError(rows, self, n, h, commits) ==
    IF h = NoHost THEN "notnull"
    ELSE IF \E i \in DOMAIN rows : i # self /\ rows[i].name = n THEN "unique"
    ELSE IF ~commits THEN "db"
    ELSE "none"

\* an add_camera whose failed row stays in the table
add_cameraNoRollback(rows, n, h, commits) ==
    LET e == CommitError(rows, 0, n, h, commits)
    IN [rows |-> Append(rows, Row(n, h)), ret |-> IF e # "none" THEN "raise" ELSE "row",
        err |-> e]

\* add_camera: Camera(..., is_active=True); add; commit; refresh; return
\* camera.  except: rollback; raise
add_camera(rows, n, h, commits) ==
    LET e == CommitError(rows, 0, n, h, commits)
    IN IF e # "none"
       THEN [rows |-> rows, ret |-> "raise", err |-> e]
       ELSE [rows |-> Append(rows, Row(n, h)), ret |-> "row", err |-> "none"]

\* the keyword arguments of update_camera: the keys given and their values
\* (the field of a key that is not given holds a fixed value and is not read)
Kwargs ==
    {kw \in [keys : SUBSET {"name", "ip_address", "is_active"},
             name : Names, ip_address : Hosts, is_active : BOOLEAN] :
        /\ "name" \notin kw.keys => kw.name = NameOf[1]
        /\ "ip_address" \notin kw.keys => kw.ip_address = AHost
        /\ "is_active" \notin kw.keys => kw.is_active}

\* for key, value in kwargs.items(): setattr(camera, key, value)
SetAttrs(row, kw) ==
    [name |-> IF "name" \in kw.keys THEN kw.name ELSE row.name,
     ip_address |-> IF "ip_address" \in kw.keys THEN kw.ip_address ELSE row.ip_address,
     is_active |-> IF "is_active" \in kw.keys THEN kw.is_active ELSE row.is_active]

\* update_camera: camera = get_camera_by_id(id); if not camera: return
\* None; setattr for every key; commit; refresh; return camera.
\* except: rollback; raise
update_camera(rows, camera_id, kw, commits) ==
    IF get_camera_by_id(rows, camera_id) = <<>>
    THEN [rows |-> rows, ret |-> "None", err |-> "none"]
    ELSE LET new == SetAttrs(rows[camera_id], kw)
             e == CommitError(rows, camera_id, new.name, new.ip_address, commits)
         IN IF e # "none"
            THEN [rows |-> rows, ret |-> "raise", err |-> e]
            ELSE [rows |-> [rows EXCEPT ![camera_id] = new], ret |-> "row",
                  err |-> "none"]

\* a delete that answers True and leaves the row active
delete_cameraKeepsActive(rows, camera_id, commits) ==
    IF get_camera_by_id(rows, camera_id) # <<>>
    THEN IF commits
         THEN [rows |-> rows, ret |-> "True", err |-> "none"]
         ELSE [rows |-> rows, ret |-> "raise", err |-> "db"]
    ELSE [rows |-> rows, ret |-> "False", err |-> "none"]

\* delete_camera: camera = get_camera_by_id(id); if camera:
\* camera.is_active = False; commit; return True.  return False.
\* A failing commit: rollback; raise
delete_camera(rows, camera_id, commits) ==
    IF get_camera_by_id(rows, camera_id) # <<>>
    THEN IF commits
         THEN [rows |-> [rows EXCEPT ![camera_id].is_active = FALSE], ret |-> "True",
               err |-> "none"]
         ELSE [rows |-> rows, ret |-> "raise", err |-> "db"]
    ELSE [rows |-> rows, ret |-> "False", err |-> "none"]

\* create_camera (POST /api/cameras) and add_camera of app_web.py:
\* manager.add_camera(...) -- an exception is answered 400 --, then
\* stream = CameraStream(...) and stream.connect() in the request thread; the
\* answer is 201 whatever connect() returns. The camera the row points to is
\* up or down and answers some URL patterns; an empty host answers nothing.
CreateCamera(h) ==
    /\ Len(db.rows) < Cardinality(Cams)
    /\ \E n \in Names, commits \in BOOLEAN :
         LET r == add_camera(db.rows, n, h, commits)
             c == Len(db.rows) + 1
         IN IF r.ret = "raise"
            THEN /\ db' = [rows |-> r.rows,
                           resp |-> [op |-> "create", id |-> 0, code |-> 400],
                           err |-> r.err]
                 /\ UNCHANGED <<streamVars, envVars, tried, dbCams>>
            ELSE /\ db' = [rows |-> r.rows,
                           resp |-> [op |-> "create", id |-> c, code |-> 201],
                           err |-> r.err]
                 /\ dbCams' = dbCams \cup {c}
                 /\ \E u \in BOOLEAN, w \in SUBSET Templates :
                      /\ h = EmptyHost => (~u /\ w = {})
                      /\ up' = [up EXCEPT ![c] = u]
                      /\ works' = [works EXCEPT ![c] = w]
                 /\ connect(c, "reg")
                 /\ UNCHANGED <<running, is_connected, cap, frame, frame_count,
                                lock, lcap, readFailed, lframe, nh, live, broken,
                                dblRelease>>
    /\ UNCHANGED <<regVars, viewVars, healthVars, tool, met, rz, console, inst, hc, req>>

\* the rest of the registration in the request thread: connect() and, on
\* success, start(); then camera_streams[cam.id] = stream
RegStep(c) ==
    /\ ctx[c] = "reg"
    /\ \/ ConnectTry(c)
       \/ ConnectAdoptCap(c)
       \/ RegConnected(c)
       \/ RegNotConnected(c)

\* the answer of delete_camera_api to what manager.delete_camera returned
DeleteCode(ret) ==
    CASE ret = "True" -> 200
      [] ret = "False" -> 404
      [] OTHER -> 400

\* delete_camera_api (DELETE /api/cameras/<id>): stop and drop the stream if
\* the id is registered, then manager.delete_camera(id): 200 / 404, 400 on
\* an exception
DeleteCameraApi(c) ==
    /\ removeStream(c)
    /\ \E commits \in BOOLEAN :
         LET r == delete_camera(db.rows, c, commits)
         IN db' = [rows |-> r.rows,
                   resp |-> [op |-> "delete", id |-> c, code |-> DeleteCode(r.ret)],
                   err |-> r.err]
    /\ UNCHANGED <<tried, dbCams, healthVars, tool, met, rz, console, inst, hc, req>>

\* get_camera (GET /api/cameras/<id>): 404 when get_camera_by_id finds no row
GetCamera(c) ==
    /\ db' = [db EXCEPT !.resp =
                [op |-> "get", id |-> c,
                 code |-> IF get_camera_by_id(db.rows, c) # <<>> THEN 200 ELSE 404],
                         !.err = "none"]
    /\ UNCHANGED <<regVars, streamVars, envVars, viewVars, tried, dbCams,
                   healthVars, tool, met, rz, console, inst, hc, req>>

\* a caller of CameraManager.add_camera: the row is stored or the call raises
AddCamera(n, h) ==
    /\ Len(db.rows) < Cardinality(Cams)
    /\ \E commits \in BOOLEAN :
         LET r == add_camera(db.rows, n, h, commits)
         IN db' = [rows |-> r.rows,
                   resp |-> [op |-> "add", id |-> Len(r.rows), code |-> 0],
                   err |-> r.err]
    /\ UNCHANGED <<regVars, streamVars, envVars, viewVars, tried, dbCams,
                   healthVars, tool, met, rz, console, inst, hc, req>>

\* a caller of CameraManager.update_camera
UpdateCamera(c, kw) ==
    /\ \E commits \in BOOLEAN :
         LET r == update_camera(db.rows, c, kw, commits)
         IN db' = [rows |-> r.rows,
                   resp |-> [op |-> "update", id |-> c, code |-> 0],
                   err |-> r.err]
    /\ UNCHANGED <<regVars, streamVars, envVars, viewVars, tried, dbCams,
                   healthVars, tool, met, rz, console, inst, hc, req>>

\* a caller of CameraManager.delete_camera
DeleteRow(c) ==
    /\ \E commits \in BOOLEAN :
         LET r == delete_camera(db.rows, c, commits)
         IN db' = [rows |-> r.rows,
                   resp |-> [op |-> "remove", id |-> c, code |-> 0],
                   err |-> r.err]
    /\ UNCHANGED <<regVars, streamVars, envVars, viewVars, tried, dbCams,
                   healthVars, tool, met, rz, console, inst, hc, req>>

\* ---------------------------------------- get_rtsp_urls and connect()'s output
\* A text is a sequence of symbols <<ch, src>>. ch is one character, or a
\* piece of text that holds none of the characters a field can hold (the
\* fixed parts of a template, a port, a channel number); src names what the
\* symbol was formatted from. Python compares and prints ch only.

\* the longest password drawn
MaxPwLen == 3

\* characters of user names and passwords
UserChars == {"a", "b"}

PwChars == {"a", "b", ":"}

\* the strings over chars of length lo..hi
Strings(chars, lo, hi) == UNION {[1..n -> chars] : n \in lo..hi}

\* a fixed piece of a template
Lit(x) == <<"lit", x>>

\* a replacement field {name}
Fld(name) == <<"field", name>>

\* rtsp://{user}:{password}@{ip}:{port}
UrlHead ==
    <<Lit("rtsp://"), Fld("username"), Lit(":"), Fld("password"), Lit("@"),
      Fld("ip"), Lit(":"), Fld("port")>>

\* RTSP_TEMPLATES listed last pattern first
RTSP_TEMPLATESReversed(prog) ==
    IF prog = "server"
    THEN << UrlHead \o <<Lit("/h264/ch1/"), Fld("stream"), Lit("/av_stream")>>,
            UrlHead \o <<Lit("/Streaming/Channels/"), Fld("channel"), Lit("?tcp")>> >>
    ELSE IF prog = "tool"
    THEN << UrlHead \o <<Lit("/ISAPI/Streaming/channels/"), Fld("channel")>>,
            UrlHead \o <<Lit("/h264/ch1/"), Fld("stream"), Lit("/av_stream")>>,
            UrlHead \o <<Lit("/Streaming/Channels/"), Fld("channel"), Lit("?tcp")>> >>
    ELSE << UrlHead \o <<Lit("/ISAPI/Streaming/channels/102")>>,
            UrlHead \o <<Lit("/h264/ch1/sub_stream/av_stream")>>,
            UrlHead \o <<Lit("/Streaming/Channels/102?tcp")>> >>

\* RTSP_TEMPLATES of api.py / app_web.py ("server"), of camera_stream.py
\* ("tool") and of dual_camera_stream.py ("dual")
RTSP_TEMPLATES(prog) ==
    IF prog = "server"
    THEN << UrlHead \o <<Lit("/Streaming/Channels/"), Fld("channel"), Lit("?tcp")>>,
            UrlHead \o <<Lit("/h264/ch1/"), Fld("stream"), Lit("/av_stream")>> >>
    ELSE IF prog = "tool"
    THEN << UrlHead \o <<Lit("/Streaming/Channels/"), Fld("channel"), Lit("?tcp")>>,
            UrlHead \o <<Lit("/h264/ch1/"), Fld("stream"), Lit("/av_stream")>>,
            UrlHead \o <<Lit("/ISAPI/Streaming/channels/"), Fld("channel")>> >>
    ELSE << UrlHead \o <<Lit("/Streaming/Channels/102?tcp")>>,
            UrlHead \o <<Lit("/h264/ch1/sub_stream/av_stream")>>,
            UrlHead \o <<Lit("/ISAPI/Streaming/channels/102")>> >>

\* CHANNELS / STREAM_CHANNELS = {'main': '101', 'sub': '102'}
CHANNELS(stream_type) == IF stream_type = "main" THEN "101" ELSE "102"

\* the keyword arguments of template.format(...): the fields of the
\* configuration k, port 554, channel = CHANNELS[stream_type],
\* stream = 'main_stream' if stream_type == 'main' else 'sub_stream'
FormatArgs(k) ==
    [username |-> k.username, password |-> k.password, ip |-> k.ip,
     port |-> <<"554">>,
     channel |-> <<CHANNELS(k.stream_type)>>,
     stream |-> <<IF k.stream_type = "main" THEN "main_stream" ELSE "sub_stream">>]

\* the symbols of the value val of field name
Field(val, name) == [j \in 1..Len(val) |-> <<val[j], name>>]

\* str.format: the pieces of the template in order, each field replaced by
\* its value
RECURSIVE format(_, _)
format(template, args) ==
    IF template = <<>> THEN <<>>
    ELSE LET p == Head(template)
         IN (IF p[1] = "lit" THEN <<<<p[2], "template">>>>
                             ELSE Field(args[p[2]], p[2]))
            \o format(Tail(template), args)

\* get_rtsp_urls: urls = []; for template in RTSP_TEMPLATES:
\* urls.append(template.format(...)); return urls
get_rtsp_urls(k) ==
    [j \in 1..Len(RTSP_TEMPLATES(k.prog)) |->
        format(RTSP_TEMPLATES(k.prog)[j], FormatArgs(k))]

\* the characters of a text
Chars(t) == [j \in 1..Len(t) |-> t[j][1]]

\* old occurs in s at position j (characters compared)
OccursAt(s, old, j) ==
    /\ j + Len(old) - 1 <= Len(s)
    /\ \A d \in 1..Len(old) : s[j + d - 1][1] = old[d]

\* '****'
Mask == [j \in 1..4 |-> <<"*", "mask">>]

\* s.replace(old, new) from position j on: the occurrences of old are taken
\* from left to right without overlap; an empty old matches before every
\* character and at the end
RECURSIVE ReplaceFrom(_, _, _, _)
ReplaceFrom(s, old, new, j) ==
    IF old = <<>>
    THEN IF j > Len(s) THEN new
         ELSE new \o <<s[j]>> \o ReplaceFrom(s, old, new, j + 1)
    ELSE IF j > Len(s) THEN <<>>
         ELSE IF OccursAt(s, old, j)
              THEN new \o ReplaceFrom(s, old, new, j + Len(old))
              ELSE <<s[j]>> \o ReplaceFrom(s, old, new, j + 1)

\* url.replace(self.password, '****')
MaskedUrl(url, password) == ReplaceFrom(url, password, Mask, 1)

\* a line made of a fixed text followed by t
Line(prefix, t) == <<<<prefix, "program">>>> \o t

\* connect() is called: urls = self.get_rtsp_urls()
ConsoleConnect ==
    /\ console.pc = "start"
    /\ console' = [console EXCEPT !.pc = "announce", !.urls = get_rtsp_urls(console),
                                  !.i = 1]
    /\ UNCHANGED <<regVars, streamVars, envVars, viewVars, tried, dbCams,
                   healthVars, tool, met, rz, db, inst, hc, req>>

\* the head of an iteration of `for url in urls`: camera_stream.py and
\* dual_camera_stream.py print
\* f"[{i}/{len(urls)}] Trying: {url.replace(self.password, '****')}",
\* api.py and app_web.py print nothing
ConsoleAnnounce ==
    /\ console.pc = "announce"
    /\ console' =
         [console EXCEPT
            !.pc = "try",
            !.line = IF console.prog = "server" THEN @
                     ELSE Line("Trying: ",
                               MaskedUrl(console.urls[console.i], console.password))]
    /\ UNCHANGED <<regVars, streamVars, envVars, viewVars, tried, dbCams,
                   healthVars, tool, met, rz, db, inst, hc, req>>

\* the body of the iteration: the candidate connects ("Connected!" and
\* return), raises (the text of the exception is printed, it comes from
\* OpenCV) or fails silently; after the last candidate the tools print
\* "connection failed"
ConsoleTry ==
    /\ console.pc = "try"
    /\ \E res \in {"ok", "exc", "fail"} :
         LET last == console.i = Len(console.urls)
             printed ==
                 CASE res = "ok" -> Line("Connected!", <<>>)
                   [] res = "exc" -> Line("Failed: ", <<<<"exception", "opencv">>>>)
                   [] OTHER -> console.line
         IN console' =
              [console EXCEPT
                 !.pc = IF res = "ok" \/ last THEN "done" ELSE "announce",
                 !.i = IF res = "ok" \/ last THEN @ ELSE @ + 1,
                 !.line = IF res # "ok" /\ last /\ console.prog # "server"
                          THEN Line("Connection failed", <<>>)
                          ELSE printed]
    /\ UNCHANGED <<regVars, streamVars, envVars, viewVars, tried, dbCams,
                   healthVars, tool, met, rz, db, inst, hc, req>>

\* ------------------------------------- the handles connect() creates
\* what one candidate can do: cv2.VideoCapture raises; the handle is not
\* open; the first read() raises; it yields no frame; it yields a frame
Outcomes == {"raise_ctor", "notopen", "raise_read", "noframe", "ok"}

\* an interpreter that never finalises an object
DropNever(k, h) == k.open

\* the last reference to the VideoCapture object h goes away (a name is
\* rebound, a frame ends): CPython deallocates the object at once and its
\* destructor releases the capture. Nothing happens to the object self.cap
\* still names. The result is the set of open handles.
Drop(k, h) == IF h = None \/ h = k.self_cap THEN k.open ELSE k.open \ {h}

\* connect() is called: by the registration or by main() on a fresh object;
\* by the server loop when self.cap is None or not opened; by reconnect()
\* of the tool after disconnect()
HcConnect ==
    /\ hc.pc \in {"idle", "returned"}
    /\ hc.calls < MaxCalls
    /\ hc.self_cap = None \/ (hc.prog = "server" /\ hc.self_cap \notin hc.open)
    /\ hc' = [hc EXCEPT !.pc = "for", !.i = 1, !.cap = None, !.made = {},
                        !.calls = @ + 1, !.ret = FALSE, !.tried = <<>>]
    /\ UNCHANGED <<regVars, streamVars, envVars, viewVars, tried, dbCams,
                   healthVars, tool, met, rz, db, console, inst, req>>

\* one iteration of `for url in urls`. cap = cv2.VideoCapture(url) rebinds
\* the local name; isOpened(); read(); on a frame self.cap = cap and
\* return True; without a frame cap.release(); camera_stream.py also calls
\* release() on a handle that is not open; an exception is caught and
\* logged. After the last URL: return False. At a return the local name
\* goes away.
HcCandidate ==
    /\ hc.pc = "for"
    /\ \E o \in Outcomes :
         LET h == hc.nh + 1
             last == hc.i = Len(RTSP_TEMPLATES(hc.prog))
             \* after cap = cv2.VideoCapture(url), isOpened() and read()
             k1 == IF o = "raise_ctor"
                   THEN hc
                   ELSE [hc EXCEPT !.open = (Drop(hc, hc.cap) \cup
                                               IF o = "notopen" THEN {} ELSE {h}),
                                   !.cap = h, !.nh = h, !.made = @ \cup {h}]
             \* cap.release() of the branch without a frame
             k2 == IF o = "noframe" THEN [k1 EXCEPT !.open = @ \ {h}] ELSE k1
             \* self.cap = cap
             k3 == IF o = "ok"
                   THEN [k2 EXCEPT !.open = Drop([k2 EXCEPT !.self_cap = h], hc.self_cap),
                                   !.self_cap = h]
                   ELSE k2
         IN hc' =
              IF o = "ok" \/ last
              THEN [k3 EXCEPT !.pc = "returned", !.ret = (o = "ok"),
                              !.open = Drop(k3, k3.cap), !.cap = None,
                              !.tried = Append(@, o)]
              ELSE [k3 EXCEPT !.i = @ + 1, !.tried = Append(@, o)]
    /\ UNCHANGED <<regVars, streamVars, envVars, viewVars, tried, dbCams,
                   healthVars, tool, met, rz, db, console, inst, req>>

\* the object is in use after connect(): the capture backend closes the
\* handle a server stream holds
HcCloses ==
    /\ hc.pc = "returned" /\ hc.prog = "server"
    /\ hc.self_cap \in hc.open
    /\ hc' = [hc EXCEPT !.pc = "idle", !.open = @ \ {hc.self_cap}]
    /\ UNCHANGED <<regVars, streamVars, envVars, viewVars, tried, dbCams,
                   healthVars, tool, met, rz, db, console, inst, req>>

\* reconnect() of the tool: self.disconnect() -- if self.cap:
\* self.cap.release(); self.cap = None -- before connect()
HcDisconnect ==
    /\ hc.pc = "returned" /\ hc.prog = "tool"
    /\ hc.self_cap # None
    /\ hc' = [hc EXCEPT !.pc = "idle", !.open = @ \ {hc.self_cap}, !.self_cap = None]
    /\ UNCHANGED <<regVars, streamVars, envVars, viewVars, tried, dbCams,
                   healthVars, tool, met, rz, db, console, inst, req>>

\* ----------------------- delete_camera_api and stream_camera, by statement
\* a DELETE /api/cameras/<id> or a GET /api/stream/<id> arrives and gets a
\* thread
ReqBegin(r, kind, id) ==
    /\ req.pc = "serving"
    /\ req.th[r].pc = "idle" /\ req.th[r].kind = "none"
    /\ req' = [req EXCEPT !.th[r] = [NoRequest EXCEPT !.kind = kind, !.id = id,
                                                      !.pc = "test"]]
    /\ UNCHANGED <<regVars, streamVars, envVars, viewVars, tried, dbCams,
                   healthVars, tool, met, rz, db, console, inst, hc>>

\* if camera_id in camera_streams:  -- otherwise delete goes on to the
\* database and stream answers 404
ReqTest(r) ==
    /\ req.th[r].pc = "test"
    /\ req' = [req EXCEPT
                 !.th[r] = IF @.id \in req.streams
                           THEN [@ EXCEPT !.pc = "lookup"]
                           ELSE IF @.kind = "delete"
                                THEN [@ EXCEPT !.pc = "db"]
                                ELSE [@ EXCEPT !.pc = "done", !.code = 404]]
    /\ UNCHANGED <<regVars, streamVars, envVars, viewVars, tried, dbCams,
                   healthVars, tool, met, rz, db, console, inst, hc>>

\* camera_streams[camera_id]: a KeyError when the key is gone; it is caught
\* by delete_camera_api (400) and leaves stream_camera (500). Otherwise
\* .stop() resp. Response(....generate_frames())
ReqLookup(r) ==
    /\ req.th[r].pc = "lookup"
    /\ req' = [req EXCEPT
                 !.th[r] = IF @.id \notin req.streams
                           THEN [@ EXCEPT !.pc = "done", !.keyerror = TRUE,
                                          !.code = IF req.th[r].kind = "delete"
                                                   THEN 400 ELSE 500]
                           ELSE IF @.kind = "delete"
                                THEN [@ EXCEPT !.pc = "del"]
                                ELSE [@ EXCEPT !.pc = "done", !.code = 200]]
    /\ UNCHANGED <<regVars, streamVars, envVars, viewVars, tried, dbCams,
                   healthVars, tool, met, rz, db, console, inst, hc>>

\* del camera_streams[camera_id]: a KeyError when the key is gone (400)
ReqDel(r) ==
    /\ req.th[r].pc = "del"
    /\ IF req.th[r].id \notin req.streams
       THEN req' = [req EXCEPT !.th[r] = [@ EXCEPT !.pc = "done", !.keyerror = TRUE,
                                                  !.code = 400]]
       ELSE req' = [req EXCEPT !.streams = @ \ {req.th[r].id},
                               !.th[r] = [@ EXCEPT !.pc = "db"]]
    /\ UNCHANGED <<regVars, streamVars, envVars, viewVars, tried, dbCams,
                   healthVars, tool, met, rz, db, console, inst, hc>>

\* manager.delete_camera(camera_id) on the row of a camera: True, 200
ReqDb(r) ==
    /\ req.th[r].pc = "db"
    /\ req' = [req EXCEPT !.th[r] = [@ EXCEPT !.pc = "done", !.code = 200]]
    /\ UNCHANGED <<regVars, streamVars, envVars, viewVars, tried, dbCams,
                   healthVars, tool, met, rz, db, console, inst, hc>>

\* ------------------------------------------------------- specification
\* a step of the thread that drives stream c (registration or loop)
ThreadStep(c) ==
    \/ ConnectTry(c)
    \/ ConnectAdoptCap(c)
    \/ RegConnected(c)
    \/ RegNotConnected(c)
    \/ LoopConnected(c)
    \/ LoopConnectFailed(c)
    \/ LoopTest(c)
    \/ LoopCheck(c)
    \/ LoopCheck2(c)
    \/ LoopRead(c)
    \/ LoopReading(c)
    \/ LoopPubAcquire(c)
    \/ LoopPubAssign(c)
    \/ LoopSleep(c)

\* a step of viewer v's generate_frames loop
ViewerStep(v) ==
    \/ ViewerAcquire(v)
    \/ ViewerCopy(v)
    \/ ViewerEncode(v)
    \/ ViewerSleep(v)

Next ==
    \/ \E c \in Cams : Register(c)
    \/ \E c \in Cams : ThreadStep(c)
    \/ \E c \in Cams : DeleteCamera(c)
    \/ \E c \in Cams : SourceUp(c)
    \/ \E c \in Cams : SourceDown(c)
    \/ \E v \in Viewers, c \in Cams : StartViewer(v, c)
    \/ \E v \in Viewers : ViewerStep(v)
    \/ \E v \in Viewers : ViewerResume(v)
    \/ \E v \in Viewers : ViewerDisconnect(v)

Spec == Init /\ [][Next]_vars

\* the scheduler runs every thread that can take a step; the environment
\* (sources, clients, requests) is not obliged to do anything
FairSpec ==
    /\ Spec
    /\ \A c \in Cams : WF_vars(ThreadStep(c))
    /\ \A v \in Viewers : WF_vars(ViewerStep(v))

\* the server with status requests served concurrently (threaded=True)
HealthNext ==
    \/ Next
    \/ HealthStart
    \/ HealthIter
    \/ HealthReturn

HealthSpec == Init /\ [][HealthNext]_vars

\* camera_stream.py run from the command line, its camera up or down
ToolInit ==
    /\ dbCams = {}
    /\ StreamsInit
    /\ SourcesInit
    /\ HealthInit
    /\ db = DbOf(dbCams)
    /\ console = ConsoleOff
    /\ inst = InstOff
    /\ hc = HcOff
    /\ req = ReqOff
    /\ tool \in {[ToolOff EXCEPT !.pc = "main", !.up = u] : u \in BOOLEAN}
    /\ met = MetOff
    /\ rz = RzOff

ToolNext ==
    \/ ToolSource
    \/ ToolMainConnect
    \/ ToolStreamEntry
    \/ ToolRead
    \/ ToolReconnect
    \/ ToolReconnected
    \/ ToolManualReconnected
    \/ ToolKey
    \/ ToolCleanup
    \/ ToolExcept
    \/ ToolFinally

ToolSpec == ToolInit /\ [][ToolNext]_vars

\* the counters of a server stream whose loop runs
MetInit ==
    /\ dbCams = {}
    /\ StreamsInit
    /\ SourcesInit
    /\ HealthInit
    /\ db = DbOf(dbCams)
    /\ console = ConsoleOff
    /\ inst = InstOff
    /\ hc = HcOff
    /\ req = ReqOff
    /\ tool = ToolOff
    /\ met = [MetOff EXCEPT !.pc = "loop"]
    /\ rz = RzOff

\* the frame counters of the two programs that keep one: a server stream
\* or the desktop tool
MetricsSpec == (MetInit \/ ToolInit) /\ [][MetLoop \/ ToolNext]_vars

\* one frame of some size reaches the normalisation of a server or of a
\* desktop tool
ResizeInit ==
    /\ dbCams = {}
    /\ StreamsInit
    /\ SourcesInit
    /\ HealthInit
    /\ db = DbOf(dbCams)
    /\ console = ConsoleOff
    /\ inst = InstOff
    /\ hc = HcOff
    /\ req = ReqOff
    /\ tool = ToolOff
    /\ met = MetOff
    /\ rz \in {[RzOff EXCEPT !.pc = "in", !.prog = p, !.w = w, !.h = h] :
                 p \in {"server", "tool"}, w \in Widths, h \in Heights}

ResizeSpec == ResizeInit /\ [][Resize]_vars

\* two camera rows, both sources up and answering the last URL pattern
TwoCamInit ==
    /\ dbCams = Cams
    /\ StreamsInit
    /\ up = [c \in Cams |-> TRUE]
    /\ works = [c \in Cams |-> {NumTemplates}]
    /\ HealthInit
    /\ db = DbOf(dbCams)
    /\ console = ConsoleOff
    /\ inst = InstOff
    /\ hc = HcOff
    /\ req = ReqOff
    /\ tool = ToolOff
    /\ met = MetOff
    /\ rz = RzOff

\* the camera that is watched, loses its source and is removed, and the
\* viewer that watches
CamA == CHOOSE c \in Cams : \A d \in Cams : c <= d

ViewerA == CHOOSE v \in Viewers : \A u \in Viewers : v <= u

\* two streams side by side: both are registered and run their loops; the
\* source of one of them drops and it is removed; one viewer attaches
TwoCamNext ==
    \/ \E c \in Cams : Register(c)
    \/ \E c \in Cams : ThreadStep(c)
    \/ DeleteCamera(CamA)
    \/ SourceDown(CamA)
    \/ \E c \in Cams : StartViewer(ViewerA, c)
    \/ ViewerStep(ViewerA)
    \/ ViewerResume(ViewerA)
    \/ ViewerDisconnect(ViewerA)

TwoCamSpec == TwoCamInit /\ [][TwoCamNext]_vars

\* one camera row and one client: the stream is registered, runs, loses and
\* regains its source, and is removed, while the client watches it
OneViewerNext ==
    \/ \E c \in Cams : Register(c)
    \/ \E c \in Cams : ThreadStep(c)
    \/ \E c \in Cams : DeleteCamera(c)
    \/ \E c \in Cams : SourceUp(c)
    \/ \E c \in Cams : SourceDown(c)
    \/ \E c \in Cams : StartViewer(ViewerA, c)
    \/ ViewerStep(ViewerA)
    \/ ViewerResume(ViewerA)
    \/ ViewerDisconnect(ViewerA)

OneViewerSpec == Init /\ [][OneViewerNext]_vars

\* every thread that can take a step is scheduled, and every call made by
\* the loop returns: read, connect and sleep (weak fairness of its steps),
\* and the acquire of the frame lock, which the viewer frees again after
\* each copy and leaves free while it encodes, yields and sleeps (strong
\* fairness)
LoopFairSpec ==
    /\ OneViewerSpec
    /\ \A c \in Cams : WF_vars(ThreadStep(c))
    /\ \A c \in Cams : SF_vars(LoopPubAcquire(c))
    /\ WF_vars(ViewerStep(ViewerA))

\* the snapshot of init_cameras holds a row for every id; each source is up
\* or down and answers some URL patterns
StartupInit ==
    /\ dbCams = Cams
    /\ StreamsInit
    /\ SourcesInit
    /\ HealthInit
    /\ db = DbOf(dbCams)
    /\ console = ConsoleOff
    /\ inst = InstOff
    /\ hc = HcOff
    /\ req = ReqOff
    /\ tool = ToolOff
    /\ met = MetOff
    /\ rz = RzOff

\* init_cameras: `for cam in cameras` takes the next row of the snapshot
\* when the body for the row before it has finished
InitCamerasNext(c) ==
    /\ \A d \in dbCams : d < c => d \in camera_streams
    /\ Register(c)

\* while init_cameras is still in its for loop, the backend closes the
\* handle of a stream the loop has already started
InitCamerasCapCloses(c) ==
    /\ \E d \in dbCams : d \notin camera_streams
    /\ CapCloses(c)

\* the startup of the server: the main thread goes through the snapshot
\* while the loops already started run; a source may drop meanwhile and
\* a handle may close, after which its loop reconnects
StartupNext ==
    \/ \E c \in Cams : InitCamerasNext(c)
    \/ \E c \in Cams : ThreadStep(c)
    \/ \E c \in Cams : SourceDown(c)
    \/ \E c \in Cams : InitCamerasCapCloses(c)

\* the main thread and the loops are scheduled and their calls return
StartupSpec ==
    /\ StartupInit
    /\ [][StartupNext]_vars
    /\ \A c \in Cams : WF_vars(InitCamerasNext(c))
    /\ \A c \in Cams : WF_vars(ThreadStep(c))

\* one CameraStream object on which a caller makes start() and stop() calls
\* in any order
InstInit ==
    /\ dbCams = {}
    /\ StreamsInit
    /\ SourcesInit
    /\ HealthInit
    /\ db = DbOf(dbCams)
    /\ console = ConsoleOff
    /\ inst = [InstOff EXCEPT !.pc = "made"]
    /\ hc = HcOff
    /\ req = ReqOff
    /\ tool = ToolOff
    /\ met = MetOff
    /\ rz = RzOff

InstNext ==
    \/ InstStart
    \/ InstStop
    \/ \E t \in Threads : InstThread(t)

InstSpec == InstInit /\ [][InstNext]_vars

\* a fresh object of a server or of the tool, about to connect
HcInit ==
    /\ dbCams = {}
    /\ StreamsInit
    /\ SourcesInit
    /\ HealthInit
    /\ db = DbOf(dbCams)
    /\ console = ConsoleOff
    /\ inst = InstOff
    /\ req = ReqOff
    /\ hc \in {[HcOff EXCEPT !.pc = "idle", !.prog = p] : p \in {"server", "tool"}}
    /\ tool = ToolOff
    /\ met = MetOff
    /\ rz = RzOff

HcNext ==
    \/ HcConnect
    \/ HcCandidate
    \/ HcCloses
    \/ HcDisconnect

HcSpec == HcInit /\ [][HcNext]_vars

\* a server with a registered stream for some of its cameras
ReqInit ==
    /\ dbCams = Cams
    /\ StreamsInit
    /\ up = [c \in Cams |-> TRUE]
    /\ works = [c \in Cams |-> Templates]
    /\ HealthInit
    /\ db = DbOf(dbCams)
    /\ console = ConsoleOff
    /\ inst = InstOff
    /\ hc = HcOff
    /\ req \in {[ReqOff EXCEPT !.pc = "serving", !.streams = ids] :
                  ids \in SUBSET Cams}
    /\ tool = ToolOff
    /\ met = MetOff
    /\ rz = RzOff

\* every request is served once, the threads interleaved at each statement
ReqNext ==
    \/ \E r \in Requests, kind \in {"delete", "stream"}, id \in Cams :
          ReqBegin(r, kind, id)
    \/ \E r \in Requests : ReqTest(r)
    \/ \E r \in Requests : ReqLookup(r)
    \/ \E r \in Requests : ReqDel(r)
    \/ \E r \in Requests : ReqDb(r)

ReqSpec == ReqInit /\ [][ReqNext]_vars

\* one stream and two clients that watch it at the same time
TwoViewerNext ==
    \/ \E c \in Cams : Register(c)
    \/ \E c \in Cams : ThreadStep(c)
    \/ \E c \in Cams : DeleteCamera(c)
    \/ \E v \in Pair, c \in Cams : StartViewer(v, c)
    \/ \E v \in Pair : ViewerStep(v)
    \/ \E v \in Pair : ViewerResume(v)
    \/ \E v \in Pair : ViewerDisconnect(v)
    \/ \E c \in Cams : SourceDown(c)

TwoViewerSpec == Init /\ [][TwoViewerNext]_vars

\* one stream whose handle the backend may close under it, without clients
ReconnectNext ==
    \/ \E c \in Cams : Register(c)
    \/ \E c \in Cams : ThreadStep(c)
    \/ \E c \in Cams : DeleteCamera(c)
    \/ \E c \in Cams : SourceUp(c)
    \/ \E c \in Cams : SourceDown(c)
    \/ \E c \in Cams : CapCloses(c)

\* the loop's thread is scheduled and each of its calls returns
ReconnectSpec ==
    /\ Init
    /\ [][ReconnectNext]_vars
    /\ \A c \in Cams : WF_vars(ThreadStep(c))

\* the CRUD requests of the server on an empty table: cameras are created,
\* looked up and deleted; the registration of a created camera runs in its
\* request thread (the loops of the streams are not followed)
DbInit ==
    /\ dbCams = {}
    /\ StreamsInit
    /\ SourcesInit
    /\ HealthInit
    /\ db = DbOf(dbCams)
    /\ console = ConsoleOff
    /\ inst = InstOff
    /\ hc = HcOff
    /\ req = ReqOff
    /\ tool = ToolOff
    /\ met = MetOff
    /\ rz = RzOff

DbNext ==
    \/ \E h \in Hosts : CreateCamera(h)
    \/ \E c \in Cams : RegStep(c)
    \/ \E c \in Cams : DeleteCameraApi(c)
    \/ \E c \in Cams : GetCamera(c)

DbSpec == DbInit /\ [][DbNext]_vars

\* a CameraManager on an empty table: rows are added, updated and
\* soft-deleted by its callers
ManagerNext ==
    \/ \E n \in Names, h \in Hosts : AddCamera(n, h)
    \/ \E c \in Cams, kw \in Kwargs : UpdateCamera(c, kw)
    \/ \E c \in Cams : DeleteRow(c)

ManagerSpec == DbInit /\ [][ManagerNext]_vars

\* one connect() of a server stream or of a desktop tool, for every
\* configuration of a few characters
UrlInit ==
    /\ dbCams = {}
    /\ StreamsInit
    /\ SourcesInit
    /\ HealthInit
    /\ db = DbOf(dbCams)
    /\ inst = InstOff
    /\ hc = HcOff
    /\ req = ReqOff
    /\ console \in
         {[ConsoleOff EXCEPT !.pc = "start", !.prog = p, !.username = u,
                             !.password = w, !.ip = h, !.stream_type = t] :
             p \in {"server", "tool", "dual"},
             u \in Strings(UserChars, 1, 2),
             w \in Strings(PwChars, 0, MaxPwLen),
             h \in {<<>>, <<"h">>},
             t \in {"main", "sub"}}
    /\ tool = ToolOff
    /\ met = MetOff
    /\ rz = RzOff

UrlNext ==
    \/ ConsoleConnect
    \/ ConsoleAnnounce
    \/ ConsoleTry

UrlSpec == UrlInit /\ [][UrlNext]_vars

\* ================================================================ claims
\* the threads of stream c that hold no thread any more
ThreadGone(c) == pc[c] \in {"nothread", "exited", "crashed"}

\* the steps of _read_frames that read, connect, publish or update metrics
LoopWork(c) ==
    \/ ConnectTry(c)
    \/ ConnectAdoptCap(c)
    \/ LoopConnected(c)
    \/ LoopConnectFailed(c)
    \/ LoopRead(c)
    \/ LoopReading(c)
    \/ LoopPubAcquire(c)
    \/ LoopPubAssign(c)

\* C1: a camera none of whose candidate URIs ever answers is registered all
\* the same, is never reported connected, and its connection attempts keep
\* recurring while it is registered. Attempts are made only by the stream's
\* acquisition loop, so they can recur only while that loop is alive.
C1_UnreachableCameraKeepsRetrying ==
    \A c \in Cams :
        (works[c] = {} /\ pc[c] \notin {"absent"} \cup ConnPcs
                       /\ c \notin everRemoved)
        => /\ c \in camera_streams
           /\ ~is_connected[c]
           /\ running[c]
           /\ pc[c] \in LoopPcs \cup ConnPcs

\* C2: a camera that could not be reached when it was registered, and whose
\* source then becomes reachable and stays so, is eventually connected with
\* a frame published in its cache (as long as it stays registered).
C2_ConnectsOnceReachable ==
    \A c \in Cams :
        <>[](c \in regFailed /\ c \in camera_streams /\ up[c] /\ works[c] # {})
        => <>(is_connected[c] /\ frame[c] # None)

\* C3: once a camera has been stopped and removed and its acquisition loop
\* has ended, no capture handle opened for it is still unreleased. (A stream
\* object that nothing references any more is finalised by the interpreter,
\* which closes its handle; the statement is about a stream that a viewer's
\* generator still references, whose handles only release() closes.)
C3_NoHandleLeakAfterRemoval ==
    \A c \in Cams :
        (c \in everRemoved /\ ThreadGone(c) /\ \E v \in Viewers : vcam[v] = c)
        => live[c] = {}

\* C4: once the removal of a camera has returned, its acquisition loop takes
\* no further read, connect, publish or metrics step.
C4_NoLoopStepAfterStop ==
    [][\A c \in Cams : c \in everRemoved => ~LoopWork(c)]_vars

C6_ReadFailureReleasesAndDisconnects ==
    \A c \in Cams : \A h \in readFailed[c] :
        pc[c] # "sleep_fail"
        => /\ h \notin live[c]
           /\ cap[c] # h
           /\ (pc[c] = "reading" => lcap[c] # h)
           /\ (c \in camera_streams => ~is_connected[c] \/ cap[c] # h)

\* C7: a viewer of a disconnected camera gets the placeholder: a chunk
\* emitted in a cycle that began while is_connected was false, and emitted
\* while it is still false, is the placeholder image.
C7_DisconnectedViewerGetsPlaceholder ==
    \A v \in Viewers :
        (vpc[v] = "yield" /\ vdisc[v] /\ ~is_connected[vcam[v]])
        => vframe[v] = Placeholder

\* C8: until the acquisition loop has published its first frame, get_frame
\* returns None and every chunk generate_frames emits is the placeholder.
C8_PlaceholderBeforeFirstFrame ==
    \A v \in Viewers :
        (vcam[v] # None /\ frame[vcam[v]] = None)
        => /\ (vpc[v] = "encode" => vframe[v] = None)
           /\ (vpc[v] \in {"yield", "sleep"} => vframe[v] = Placeholder)

\* C8 witness: a chunk is emitted for a camera that is connected (connect()
\* has read a frame) but whose loop has published nothing yet
C8_Witness ==
    \E v \in Viewers :
        /\ vpc[v] = "yield" /\ vframe[v] = Placeholder
        /\ is_connected[vcam[v]] /\ frame[vcam[v]] = None

\* C9: the cache is one slot per camera; the publish assignment and the
\* copy of get_frame exclude each other under the stream's lock, and what
\* get_frame returns is None or one whole published frame, the current one
\* or an earlier one, never a frame that was not published.
C9_AtomicSingleSlotCache ==
    \A c \in Cams :
        /\ frame[c] \in 0..frame_count[c]
        /\ Cardinality(lock[c]) <= 1
        /\ (pc[c] = "pub_assign" => lock[c] = {<<"loop">>})
        /\ \A v \in Viewers : vcam[v] = c =>
             /\ (vpc[v] = "get_copy" => lock[c] = {<<"viewer", v>>})
             /\ ~(vpc[v] = "get_copy" /\ pc[c] = "pub_assign")
             /\ (vpc[v] = "encode" => vframe[v] \in 0..frame[c])

\* C9 witness: the loop has a new frame to publish and waits for the lock
\* while a viewer is copying the previous one
C9_Witness ==
    \E v \in Viewers :
        /\ vpc[v] = "get_copy" /\ pc[vcam[v]] = "pub_acquire"
        /\ frame[vcam[v]] # None

\* C10: the frame lock is held only during the reference swap or the copy:
\* never by the loop outside the publish assignment, never by a viewer
\* outside get_frame's copy; a viewer parked at its yield, encoding or
\* sleeping holds nothing, so the loop's acquire is not blocked by it.
C10_LockHeldOnlyForSwapOrCopy ==
    \A c \in Cams :
        /\ (<<"loop">> \in lock[c] => pc[c] = "pub_assign")
        /\ \A v \in Viewers :
             <<"viewer", v>> \in lock[c] => (vpc[v] = "get_copy" /\ vcam[v] = c)
        /\ ((\A v \in Viewers : vpc[v] # "get_copy") /\ pc[c] # "pub_assign")
           => lock[c] = {}

\* C10 witness: the loop publishes while a viewer is parked at its yield
C10_Witness ==
    \E v \in Viewers :
        vpc[v] = "yield" /\ vframe[v] # Placeholder /\ pc[vcam[v]] = "pub_assign"

\* a step of a viewer: the request that attaches it, a step of its
\* generate_frames loop, its resumption or its disconnection
AnyViewerStep ==
    \/ \E v \in Viewers, c \in Cams : StartViewer(v, c)
    \/ \E v \in Viewers : ViewerStep(v) \/ ViewerResume(v) \/ ViewerDisconnect(v)

C12_StatusQueryNeverFails ==
    /\ hpc # "error"
    /\ hpc = "done" => hstatus = camera_streams

\* C13: registering a stream returns without waiting for a connection
\* attempt: no candidate is tried by a connect() that runs in the thread of
\* the caller (init_cameras / create_camera) before the stream is started.
C13_NoConnectAttemptInCaller ==
    \A c \in Cams : ctx[c] = "reg" => tried[c] = <<>>

\* C14: a viewer that stays attached to a camera that has been stopped and
\* removed eventually stops emitting chunks: from some point on it enters
\* no further yield (it is never at a yield again, or it stays at one).
C14_ViewerStopsAfterRemoval ==
    \A v \in Viewers :
        <>[](vcam[v] # None /\ vcam[v] \in everRemoved)
            => (<>[](vpc[v] # "yield") \/ <>[](vpc[v] = "yield"))

\* C15: connect() tries the candidates in resolver order (the k-th attempt
\* is candidate k), a candidate succeeds exactly when it opens and yields a
\* frame, the first success is adopted (its handle becomes the stream's
\* handle) and ends the call, no candidate is tried after it, and the call
\* then reports success.
C15_FirstWorkingCandidateAdopted ==
    /\ [](\A c \in Cams :
            /\ Len(tried[c]) <= NumTemplates
            /\ \A k \in 1..Len(tried[c]) :
                   tried[c][k] = "ok" => k = Len(tried[c])
            /\ (tried[c] # <<>> /\ tried[c][Len(tried[c])] = "ok")
                   <=> pc[c] \in {"c_adopt_cap", "c_adopt_flag"}
            /\ pc[c] = "c_adopt_cap" => lcap[c] = nh[c] /\ lcap[c] \in live[c]
            /\ pc[c] = "c_adopt_flag" => cap[c] \in {nh[c], None})
    /\ [][\A c \in Cams :
            /\ ConnectTry(c) =>
                  /\ Len(tried'[c]) = url_i[c]
                  /\ tried'[c][url_i[c]] = "ok" <=> CandidateOk(c, url_i[c])
            /\ (pc[c] = "c_adopt_flag" /\ pc'[c] # "c_adopt_flag")
                  => is_connected'[c]]_vars

\* the second candidate was adopted after the first one failed
C15_Witness ==
    \E c \in Cams :
        /\ pc[c] = "c_adopt_flag"
        /\ Len(tried[c]) = 2 /\ tried[c][1] # "ok" /\ tried[c][2] = "ok"
        /\ cap[c] = nh[c] /\ cap[c] \in live[c]

\* C16: a candidate that raises, does not open or yields no first frame
\* never ends connect() by itself: the call is still in progress after it
\* with the next candidate pending; connect() reports failure exactly when
\* every candidate has failed, and then leaves the stream not connected.
C16_CandidateFailureContained ==
    /\ [](\A c \in Cams :
            /\ tried[c] # <<>> => pc[c] \in ConnPcs
            /\ pc[c] = "c_try" =>
                  /\ Len(tried[c]) = url_i[c] - 1
                  /\ \A k \in 1..Len(tried[c]) : tried[c][k] \in FailKinds
            /\ pc[c] = "c_fail" <=>
                  /\ Len(tried[c]) = NumTemplates
                  /\ \A k \in 1..Len(tried[c]) : tried[c][k] \in FailKinds)
    /\ [][\A c \in Cams :
            (pc[c] = "c_fail" /\ pc'[c] # "c_fail")
                => ~is_connected'[c] /\ live'[c] = live[c]]_vars

\* connect() is about to report failure after one candidate raised and the
\* other opened without yielding a frame
C16_Witness ==
    \E c \in Cams :
        /\ pc[c] = "c_fail"
        /\ tried[c] = <<"exc", "noframe">>

\* C17: when the stream of the desktop tool is lost and the source stays
\* unreachable, stream() never ends by an exception: it ends through its
\* cleanup after MAX_RECONNECT_ATTEMPTS failed reconnection attempts.
C17_FiveFailedAttemptsThenCleanup ==
    /\ tool.end # "exception"
    /\ tool.end = "max" => tool.reconnect_attempts = MAX_RECONNECT_ATTEMPTS

\* one step seen on the counters of a loop (fps_new: the last step of the
\* program wrote fps): the count is kept and fps is not written, or the
\* count grows by 1 and fps is written exactly when the new count is a
\* multiple of 30
CountersStep(old, new) ==
    \/ new.frame_count = old.frame_count /\ (new.fps_new => old.fps_new)
    \/ /\ new.frame_count = old.frame_count + 1
       /\ new.fps_new <=> new.frame_count % 30 = 0

\* in the tool the count grows exactly in the passes whose read yields a frame
ToolCountsReads ==
    (tool'.frame_count = tool.frame_count + 1)
        <=> (ToolRead /\ tool.cap # None /\ tool.up /\ ~tool.broken)

\* C18 as stated: the frame count never decreases, grows by exactly 1 per
\* successful read, is unchanged by failed reads and by reconnects, and fps
\* is recomputed exactly on the reads that bring the count to a multiple of
\* 30 (server streams and desktop tool).
C18_CountMonotoneFpsEvery30 ==
    [][/\ CountersStep(met, met')
       /\ CountersStep(tool, tool')
       /\ ToolCountsReads]_vars

\* the successful manual reconnect of the tool (key 'r'): frame_count = 0
ManualReset ==
    /\ ToolManualReconnected /\ tool.up
    /\ tool'.frame_count = 0 /\ ~tool'.fps_new

\* C18 amended: as stated, except that a successful manual reconnect of the
\* desktop tool sets its count back to 0; failed reads, automatic reconnects
\* and failed manual reconnects leave the count unchanged.
C18_CountFpsEvery30ManualReset ==
    [][/\ CountersStep(met, met')
       /\ CountersStep(tool, tool') \/ ManualReset
       /\ ToolCountsReads]_vars

\* after a manual reconnect the tool has counted 30 frames again and has
\* just recomputed fps
C18_Witness ==
    tool.manual /\ tool.frame_count = 30 /\ tool.fps_new

\* the maximum width of the program that normalises the frame
MaxWidthOf(p) == IF p = "server" THEN ServerMaxWidth ELSE MAX_FRAME_WIDTH

\* C19: a frame wider than the maximum width M (800 in the servers, 1280 in
\* the desktop tools) comes out with width M and height floor(h * M / w); a
\* frame of width at most M keeps its size.
C19_ResizeToFloorHeight ==
    rz.pc = "out" =>
        IF rz.w > MaxWidthOf(rz.prog)
        THEN /\ rz.ow = MaxWidthOf(rz.prog)
             /\ rz.oh = (rz.h * MaxWidthOf(rz.prog)) \div rz.w
        ELSE rz.ow = rz.w /\ rz.oh = rz.h

\* the handle, cached frame, connection flag, metrics, running flag and
\* lock of stream c
CamFields(c) ==
    <<cap[c], live[c], frame[c], is_connected[c], frame_count[c], running[c],
      lock[c]>>

\* a step made for camera a: its registration, a step of its thread, its
\* removal (stop), or a step of a viewer of its stream
StepOfCamera(a) ==
    \/ Register(a)
    \/ ThreadStep(a)
    \/ DeleteCamera(a)
    \/ \E v \in Viewers : StartViewer(v, a)
    \/ \E v \in Viewers :
          /\ vcam[v] = a
          /\ ViewerStep(v) \/ ViewerResume(v) \/ ViewerDisconnect(v)

\* C20: no step made for one camera (loop, connect(), stop(), viewers)
\* changes the handle, cached frame, connection flag, metrics or running
\* flag of another camera.
C20_NoStateSharedBetweenCameras ==
    [][\A a \in Cams, b \in Cams :
          (a # b /\ StepOfCamera(a)) => CamFields(b)' = CamFields(b)]_vars

\* camera A has been stopped and removed while a viewer still reads its
\* stream, and camera B goes on streaming on its handle
C20_Witness ==
    \E a \in Cams, b \in Cams :
        /\ a # b
        /\ a \in everRemoved /\ ~running[a] /\ cap[a] = None
        /\ \E v \in Viewers : vcam[v] = a /\ vpc[v] = "yield"
        /\ running[b] /\ is_connected[b] /\ cap[b] \in live[b]
        /\ frame[b] > 0

\* connect() is entered by stream c: its first candidate is about to be tried
ConnectEntered(c) == pc[c] # "c_try" /\ pc'[c] = "c_try"

\* C21: stopping is terminal for a stream instance: once stop() has been
\* called on it (the removal of its registry entry is the only caller), the
\* instance starts no connection attempt, adopts no capture handle and is
\* never reported connected again.
C21_StopIsTerminal ==
    /\ [](\A c \in Cams : c \in everRemoved => ~is_connected[c] /\ cap[c] = None)
    /\ [][\A c \in Cams : c \in everRemoved =>
             /\ ~ConnectEntered(c)
             /\ ~ConnectTry(c)
             /\ ~ConnectAdoptCap(c)]_vars

\* C22: after stop() has been called on a stream whose acquisition loop was
\* started, the loop eventually ends (it leaves at a loop test that reads
\* running = False, or an exception ends its thread); it does not go on
\* iterating for ever. Under fair scheduling, every read, connect, sleep and
\* lock acquisition returning.
C22_LoopExitsAfterStop ==
    \A c \in Cams : (c \in everRemoved) ~> ThreadGone(c)

\* the loop of a stream that had published frames has left at its loop test
\* after the stream was stopped
C22_Witness ==
    \E c \in Cams : c \in everRemoved /\ pc[c] = "exited" /\ frame[c] # None

\* a configuration without a host: no ip_address, or an empty one
MissingHosts == {NoHost, EmptyHost}

\* C23: starting a stream for a configuration with a missing host fails and
\* the failure is reported to the caller: the request is not answered with
\* success, and no stream object and no registry entry exists for it.
C23_MissingHostRejected ==
    /\ \A c \in DOMAIN db.rows :
          db.rows[c].ip_address \in MissingHosts
              => pc[c] = "absent" /\ c \notin camera_streams
    /\ (db.resp.op = "create" /\ db.resp.code = 201)
          => db.rows[db.resp.id].ip_address \notin MissingHosts

\* a step of a registry operation: add/start (the connect() and start() run
\* by the request, the insertion of the entry), stop/remove, status
RegistryStep ==
    \/ \E c \in Cams : Register(c) \/ RegStep(c) \/ DeleteCamera(c)
    \/ HealthStart
    \/ HealthIter
    \/ HealthReturn

\* C24: only the acquisition loop writes a camera's connection state,
\* capture handle, frame cache and metrics and opens or closes connections:
\* no step of a registry operation and no step of a viewer changes them.
C24_OnlyLoopWritesStreamState ==
    [][(RegistryStep \/ AnyViewerStep)
          => UNCHANGED <<is_connected, cap, frame, frame_count, nh, live>>]_vars

\* C25: when the JPEG encoding of a frame fails in generate_frames, nothing
\* is yielded for that cycle and the viewer loop goes on with the next one
\* (its next step is the get_frame of a new cycle, on the same stream); a
\* chunk is yielded only after an encoding that succeeded; the encoding,
\* failed or not, changes nothing of the stream or its acquisition loop.
C25_EncodeFailureSkipsChunk ==
    /\ [](\A v \in Viewers : vpc[v] = "skipped" => vcam[v] # None)
    /\ [][\A v \in Viewers :
            /\ ViewerEncode(v) =>
                  /\ vpc'[v] \in {"yield", "skipped"}
                  /\ vcam'[v] = vcam[v]
                  /\ UNCHANGED <<streamVars, regVars>>
            /\ vpc[v] = "skipped" =>
                  /\ vpc'[v] \in {"skipped", "get_copy"}
                  /\ vcam'[v] = vcam[v]
            /\ (vpc'[v] = "yield" /\ vpc[v] # "yield") => vpc[v] = "encode"]_vars

\* the encoding of a captured frame has failed for a viewer of a stream
\* whose loop is in the middle of a read
C25_Witness ==
    \E v \in Viewers :
        /\ vpc[v] = "skipped" /\ vframe[v] > 0
        /\ pc[vcam[v]] = "reading"

\* C26: disconnect() of camera_stream.py is idempotent: in every state,
\* calling it leaves cap = None, video_writer = None, is_recording = False
\* with every capture handle and video writer released exactly once, and
\* calling it again changes nothing; the second call of a run (main's
\* finally after the cleanup of stream()) changes nothing and releases
\* nothing.
C26_DisconnectIdempotent ==
    /\ [](LET d == toolDisconnect(tool)
          IN /\ toolDisconnect(d) = d
             /\ d.cap = None /\ ~d.video_writer /\ ~d.is_recording
             /\ d.open = 0 /\ d.wopen = 0)
    /\ [](tool.open \in {0, 1} /\ tool.wopen \in {0, 1})
    /\ [][(ToolFinally /\ tool.end \in {"quit", "max"})
             => tool' = [tool EXCEPT !.pc = "done"]]_vars

\* the tool has ended after a quit: stream() has disconnected during its
\* cleanup and main() again in its finally, after frames were shown
C26_Witness ==
    /\ tool.pc = "done" /\ tool.end = "quit" /\ tool.frame_count > 0
    /\ tool.cap = None /\ tool.open = 0 /\ tool.wopen = 0

\* old occurs somewhere in the characters of the text t
Contains(t, old) == \E j \in 1..Len(t) : OccursAt(t, old, j)

\* C27: no line connect() prints shows the password: a desktop tool prints
\* the candidate URL with the password replaced by '****', so no character
\* of the line comes from the password field and the password cannot be read
\* in the line; a server prints no candidate URL at all.
C27_PasswordNeverPrinted ==
    /\ \A j \in 1..Len(console.line) : console.line[j][2] # "password"
    /\ console.password # <<>> => ~Contains(console.line, console.password)
    /\ console.prog = "server" =>
          \A j \in 1..Len(console.line) : console.line[j][2] # "template"

\* the URL follows the numbered-channel pattern
IsNumberedChannel(u) ==
    \E j \in 1..(Len(u) - 1) :
        u[j][1] = "/Streaming/Channels/" /\ u[j + 1][2] = "channel"

\* the URL follows the stream-name pattern
IsStreamName(u) ==
    \E j \in 1..(Len(u) - 1) : u[j][1] = "/h264/ch1/" /\ u[j + 1][2] = "stream"

\* the stream variant the URL addresses
Variant(u) ==
    IF \E j \in 1..Len(u) : u[j][1] \in {"101", "main_stream"} THEN "main"
    ELSE IF \E j \in 1..Len(u) : u[j][1] \in {"102", "sub_stream"} THEN "sub"
    ELSE "none"

\* the value of a field as it stands in the URL
FieldIn(u, name) == Chars(SelectSeq(u, LAMBDA s : s[2] = name))

C29_SoftDelete ==
    /\ [](\A c \in Cams :
             LET r == delete_camera(db.rows, c, TRUE)
             IN IF c \in DOMAIN db.rows
                THEN /\ r.ret = "True"
                     /\ ~r.rows[c].is_active
                     /\ get_camera_by_id(r.rows, c) = <<c>>
                     /\ c \notin get_all_cameras(r.rows, TRUE)
                     /\ c \in get_all_cameras(r.rows, FALSE)
                     /\ DOMAIN r.rows = DOMAIN db.rows
                     /\ \A i \in DOMAIN db.rows \ {c} : r.rows[i] = db.rows[i]
                     /\ r.rows[c].ip_address = db.rows[c].ip_address
                     /\ r.rows[c].name = db.rows[c].name
                ELSE r.ret = "False" /\ r.rows = db.rows)
    /\ [][(db'.resp.op = "delete" /\ db' # db) =>
            LET c == db'.resp.id
            IN CASE db'.resp.code = 200 ->
                      /\ c \in DOMAIN db.rows
                      /\ db'.rows = delete_camera(db.rows, c, TRUE).rows
                      /\ c \notin get_all_cameras(db'.rows, TRUE)
                 [] db'.resp.code = 404 ->
                      c \notin DOMAIN db.rows /\ db'.rows = db.rows
                 [] OTHER -> db'.resp.code = 400 /\ db'.rows = db.rows]_vars

\* camera 1 was deleted and answered 200: its row is kept, inactive, while
\* camera 2 is still listed
C29_Witness ==
    /\ db.resp = [op |-> "delete", id |-> 1, code |-> 200]
    /\ db.err = "none"
    /\ Len(db.rows) = 2
    /\ ~db.rows[1].is_active
    /\ get_camera_by_id(db.rows, 1) = <<1>>
    /\ get_all_cameras(db.rows, TRUE) = {2}

\* the position of stream c's thread changes
Moves(c) == pc'[c] # pc[c]

\* C30: a running acquisition loop that finds no open capture handle enters
\* connect(); a failed connect() is followed by the reconnect sleep and then
\* by the loop test, and nothing else leads into that sleep; a successful
\* connect() is followed by the loop test, the handle test and the read with
\* no sleep between; a loop that stays running and never gets an open handle
\* attempts connect() again and again, for ever.
C30_ReconnectLoop ==
    /\ [][\A c \in Cams :
            /\ (pc[c] = "check" /\ Moves(c)) =>
                  IF cap[c] = None
                  THEN ConnectEntered(c) /\ ctx'[c] = "loop" /\ url_i'[c] = 1
                  ELSE pc'[c] = "check2"
            /\ (pc[c] = "check2" /\ cap[c] # None /\ Moves(c)) =>
                  IF isOpened(c, cap[c])
                  THEN pc'[c] = "read"
                  ELSE ConnectEntered(c) /\ ctx'[c] = "loop" /\ url_i'[c] = 1
            /\ (pc[c] = "c_fail" /\ ctx[c] = "loop" /\ Moves(c)) =>
                  pc'[c] = "sleep_retry"
            /\ (pc'[c] = "sleep_retry" /\ Moves(c)) =>
                  pc[c] = "c_fail" /\ ctx[c] = "loop"
            /\ (pc[c] = "sleep_retry" /\ Moves(c)) => pc'[c] = "test"
            /\ (pc[c] = "c_adopt_flag" /\ ctx[c] = "loop" /\ Moves(c)) =>
                  pc'[c] = "test"
            /\ (pc[c] = "test" /\ Moves(c)) =>
                  pc'[c] = IF running[c] THEN "check" ELSE "exited"]_vars
    /\ \A c \in Cams :
          <>[](running[c] /\ live[c] = {}) =>
              /\ []<>(pc[c] = "c_try" /\ ctx[c] = "loop")
              /\ []<>(pc[c] = "sleep_retry")

\* a running loop that lost its handle and failed to connect has slept and
\* is in connect() again
C30_Witness ==
    \E c \in Cams :
        /\ running[c]
        /\ c \notin everRemoved
        /\ ~is_connected[c]
        /\ pc[c] = "c_try" /\ ctx[c] = "loop"
        /\ live[c] = {}
        /\ nh[c] >= 1

\* viewer v's get_frame returns: the copy is taken
Copies(v) == vpc[v] = "get_copy" /\ vpc'[v] = "encode"

\* C31: each viewer sees the frames in publication order: the frame one
\* generate_frames loop reads in a cycle is never older than the frame it
\* read in the cycle before; every viewer of a camera reads the one cache
\* slot of that camera, whose frames only advance.
C31_ViewersSeeFramesInOrder ==
    [][/\ \A v \in Pair :
            Copies(v) =>
               /\ vframe'[v] = frame[vcam[v]]
               /\ vframe[v] \notin {None, Placeholder} =>
                     (vframe'[v] # None /\ vframe'[v] >= vframe[v])
       /\ \A c \in Cams :
            frame'[c] # frame[c] => (frame'[c] # None /\ frame'[c] > frame[c])]_vars

\* two clients of the same camera hold the same, second, frame of its slot
C31_Witness ==
    \E c \in Cams :
        /\ \A v \in Pair : vcam[v] = c /\ vpc[v] = "yield" /\ vframe[v] = frame[c]
        /\ frame[c] = 2

\* C32: init_cameras ends with a registry entry for every camera of the
\* snapshot, whatever each connect() returned; an entry is created for a
\* camera whose connect() failed, and a camera whose connect() succeeded is
\* started, whether or not a camera before it failed.
C32_StartupRegistersEveryCamera ==
    /\ <>[](\A c \in dbCams : c \in camera_streams)
    /\ [](\A c \in dbCams :
             /\ c \in regFailed => (c \in camera_streams \/ pc[c] = "c_fail")
             /\ (c \in camera_streams /\ c \notin regFailed) => running[c])

\* the first camera failed to connect; the second one is registered, was
\* started and has published a frame
C32_Witness ==
    /\ 1 \in camera_streams /\ 1 \in regFailed /\ ~running[1]
    /\ 2 \in camera_streams /\ running[2] /\ frame[2] # None

\* C33: however stop() interleaves with the acquisition loop, the loop calls
\* neither isOpened() nor read() on a self.cap that is None, and its thread
\* never ends by an unhandled exception.
C33_LoopNeverUsesNoneCap ==
    /\ [](\A c \in Cams : pc[c] # "crashed")
    /\ [][\A c \in Cams :
             /\ (pc[c] = "check2" /\ Moves(c)) => cap[c] # None
             /\ (pc[c] = "read" /\ Moves(c)) => cap[c] # None]_vars

\* C34: whatever start() and stop() calls are made on one CameraStream, at
\* most one thread runs its acquisition loop at any time, and a start() on
\* an instance whose running flag is true creates no thread.
C34_AtMostOneLoopThread ==
    /\ [](Cardinality(Alive(inst)) <= 1)
    /\ [][\A t \in Threads :
             (inst.th[t] = "none" /\ inst'.th[t] # "none") => ~inst.running]_vars

C36_NoMissingRegistryKey ==
    \A r \in Requests :
        /\ ~req.th[r].keyerror
        /\ req.th[r].pc = "done" =>
              req.th[r].code \in (IF req.th[r].kind = "delete" THEN {200} ELSE {200, 404})

\* the rows of a table that hold the name n
Holders(rows, n) == {i \in DOMAIN rows : rows[i].name = n}

\* C37: add_camera and update_camera are atomic with respect to failure:
\* when the commit fails -- the name is held by another row, active or
\* soft-deleted, a required column is missing, the database fails -- the
\* call raises and the stored rows are the rows from before the call; a
\* call that does not raise stores exactly the row it was given.
C37_FailedWriteChangesNothing ==
    /\ [](/\ \A n \in Names, h \in Hosts, commits \in BOOLEAN :
               LET r == add_camera(db.rows, n, h, commits)
               IN IF Holders(db.rows, n) # {} \/ h = NoHost \/ ~commits
                  THEN r.ret = "raise" /\ r.rows = db.rows
                  ELSE r.ret = "row" /\ r.rows = Append(db.rows, Row(n, h))
          /\ \A c \in DOMAIN db.rows, kw \in Kwargs, commits \in BOOLEAN :
               LET r == update_camera(db.rows, c, kw, commits)
                   new == SetAttrs(db.rows[c], kw)
               IN IF \/ Holders(db.rows, new.name) \ {c} # {}
                     \/ new.ip_address = NoHost
                     \/ ~commits
                  THEN r.ret = "raise" /\ r.rows = db.rows
                  ELSE r.ret = "row" /\ r.rows = [db.rows EXCEPT ![c] = new])
    /\ [][db'.err # "none" => db'.rows = db.rows]_vars

\* an add_camera was refused because its name is held by the only row of
\* the table, a soft-deleted one
C37_Witness ==
    /\ db.resp.op = "add"
    /\ db.err = "unique"
    /\ Len(db.rows) = 1
    /\ ~db.rows[1].is_active
====
